---------------------------- MODULE Spec2Model ----------------------------
(***************************************************************************)
(* Model of the document-normalization pipeline of kfcx:                   *)
(*   src/src/lib/data/pdf-parser.ts        (report parser)                 *)
(*   src/src/lib/data/transcript-parser.ts (transcript parser)             *)
(*                                                                         *)
(* A JavaScript string is a sequence of characters; a character is a       *)
(* one-letter TLA+ string, or a name for a typographic character:          *)
(*   "LDQUO" U+201C   "RDQUO" U+201D   "LSQUO" U+2018   "RSQUO" U+2019     *)
(*   "HELLIP" U+2026  "NDASH" U+2013   "MDASH" U+2014   "HBAR" U+2015      *)
(* Offsets are 0-based as in JavaScript: offset p stands before the        *)
(* character text[p+1].  Regular expressions are data (sequences of        *)
(* nodes) interpreted by a backtracking matcher with JavaScript's          *)
(* priorities (greedy / lazy quantifiers, ordered alternation).            *)
(***************************************************************************)
EXTENDS Integers, Sequences, FiniteSets, TLC

VARIABLES input, nfrag, pc, out

vars == <<input, nfrag, pc, out>>

(***************************************************************************)
(* Characters                                                              *)
(***************************************************************************)
UpperSeq == <<"A","B","C","D","E","F","G","H","I","J","K","L","M",
              "N","O","P","Q","R","S","T","U","V","W","X","Y","Z">>
LowerSeq == <<"a","b","c","d","e","f","g","h","i","j","k","l","m",
              "n","o","p","q","r","s","t","u","v","w","x","y","z">>
Upper == {UpperSeq[i] : i \in 1..26}
Lower == {LowerSeq[i] : i \in 1..26}
Letter == Upper \cup Lower
Digit == {"0","1","2","3","4","5","6","7","8","9"}
Typographic == {"LDQUO","RDQUO","LSQUO","RSQUO","HELLIP","NDASH","MDASH","HBAR"}
Punct == {".", ",", ":", ";", "/", "&", "'", "(", ")", "[", "]", "-", "_",
          "\"", "?", "!"}
\* \s of a JavaScript regular expression (the members the model uses)
WS == {" ", "\n", "\t"}
\* line terminators: what "." does not match and what ^ and $ see under /m
LineTerm == {"\n"}
Alphabet == Letter \cup Digit \cup Typographic \cup Punct \cup WS
\* "." of a JavaScript regular expression
Dot == Alphabet \ LineTerm

\* the two letter cases of a character, for the /i flag
CaseSet(c) ==
  IF c \in Upper
    THEN {c, LowerSeq[CHOOSE i \in 1..26 : UpperSeq[i] = c]}
    ELSE IF c \in Lower
      THEN {c, UpperSeq[CHOOSE i \in 1..26 : LowerSeq[i] = c]}
      ELSE {c}

(***************************************************************************)
(* Regular expression nodes                                                *)
(***************************************************************************)
\* max = -1 stands for "no upper limit"
Rep(S, lo, hi) == [t |-> "set", s |-> S, min |-> lo, max |-> hi, lazy |-> FALSE]
LazyRep(S, lo, hi) == [t |-> "set", s |-> S, min |-> lo, max |-> hi, lazy |-> TRUE]
Ch(S) == Rep(S, 1, 1)
Star(S) == Rep(S, 0, -1)
Plus(S) == Rep(S, 1, -1)
Opt(S) == Rep(S, 0, 1)
LazyPlus(S) == LazyRep(S, 1, -1)
\* a literal word, and the same under /i: one node matching Len(w) characters
Lit(w) == <<[t |-> "lit", sets |-> [i \in 1..Len(w) |-> {w[i]}]]>>
LitI(w) == <<[t |-> "lit", sets |-> [i \in 1..Len(w) |-> CaseSet(w[i])]]>>
\* (?:a|b|...) : ordered alternation of sub-patterns
Alt(alts) == [t |-> "alt", alts |-> alts]
\* (?:p)? : the sub-pattern, else nothing
OptGroup(p) == Alt(<<p, <<>> >>)
\* capture group k opens / closes here
Open(k) == [t |-> "open", k |-> k]
Close(k) == [t |-> "close", k |-> k]
\* ^ and $ without /m, and with /m
Bos == [t |-> "bos"]
Eos == [t |-> "eos"]
Bol == [t |-> "bol"]
Eol == [t |-> "eol"]

NoCaps == [k \in 1..2 |-> <<-1, -1>>]
NoMatch == [ok |-> FALSE, start |-> -1, end |-> -1, caps |-> NoCaps]

\* the least and the greatest member of a non-empty set of integers
Least(S) == CHOOSE i \in S : \A j \in S : i <= j
Greatest(S) == CHOOSE i \in S : \A j \in S : i >= j

\* number of consecutive characters of S between the offsets a and b, counted
\* from a (by halves: the recursion is as deep as log(b - a))
RECURSIVE RunBetween(_, _, _, _)
RunBetween(S, text, a, b) ==
  IF a >= b THEN 0
  ELSE IF b - a = 1 THEN (IF text[b] \in S THEN 1 ELSE 0)
  ELSE LET mid == (a + b) \div 2
           l == RunBetween(S, text, a, mid)
       IN IF l < mid - a THEN l ELSE l + RunBetween(S, text, mid, b)

\* number of consecutive characters of S from offset pos, at most hi
RunLen(S, text, pos, hi) ==
  RunBetween(S, text, pos,
             IF hi >= 0 /\ pos + hi < Len(text) THEN pos + hi ELSE Len(text))

\* The pattern pat matched at offset pos: the first match in backtracking
\* order, as [ok, start, end, caps]; start is filled in by the search.
RECURSIVE MatchFrom(_, _, _, _)
MatchFrom(pat, text, pos, caps) ==
  IF Len(pat) = 0
    THEN [ok |-> TRUE, start |-> -1, end |-> pos, caps |-> caps]
    ELSE LET h == Head(pat)
             rest == Tail(pat)
         IN CASE h.t = "lit" ->
                   IF /\ pos + Len(h.sets) <= Len(text)
                      /\ \A i \in 1..Len(h.sets) : text[pos + i] \in h.sets[i]
                     THEN MatchFrom(rest, text, pos + Len(h.sets), caps)
                     ELSE NoMatch
              [] h.t = "set" ->
                   \* a quantified class: the counts it can take are h.min..r;
                   \* the first count in backtracking order (the least one
                   \* when lazy, the greatest when greedy) after which the
                   \* rest of the pattern matches
                   LET r == RunLen(h.s, text, pos, h.max)
                       tries == {[n |-> n, m |-> MatchFrom(rest, text, pos + n, caps)] :
                                   n \in h.min..r}
                       good == {x.n : x \in {y \in tries : y.m.ok}}
                   IN IF good = {}
                        THEN NoMatch
                        ELSE LET n == IF h.lazy THEN Least(good) ELSE Greatest(good)
                             IN (CHOOSE x \in tries : x.n = n).m
              [] h.t = "alt" ->
                   \* ordered alternation: the first branch after which the
                   \* rest of the pattern matches
                   LET tries == [b \in 1..Len(h.alts) |->
                                   MatchFrom(h.alts[b] \o rest, text, pos, caps)]
                       good == {b \in 1..Len(h.alts) : tries[b].ok}
                   IN IF good = {} THEN NoMatch ELSE tries[Least(good)]
              [] h.t = "open" ->
                   MatchFrom(rest, text, pos,
                             [caps EXCEPT ![h.k] = <<pos, -1>>])
              [] h.t = "close" ->
                   MatchFrom(rest, text, pos,
                             [caps EXCEPT ![h.k] = <<caps[h.k][1], pos>>])
              [] h.t = "bos" ->
                   IF pos = 0 THEN MatchFrom(rest, text, pos, caps) ELSE NoMatch
              [] h.t = "eos" ->
                   IF pos = Len(text) THEN MatchFrom(rest, text, pos, caps) ELSE NoMatch
              [] h.t = "bol" ->
                   IF pos = 0 \/ text[pos] \in LineTerm
                     THEN MatchFrom(rest, text, pos, caps) ELSE NoMatch
              [] h.t = "eol" ->
                   IF pos = Len(text) \/ text[pos + 1] \in LineTerm
                     THEN MatchFrom(rest, text, pos, caps) ELSE NoMatch

\* the match at offset i, with its start
MatchAt(pat, text, i) == [MatchFrom(pat, text, i, NoCaps) EXCEPT !.start = i]

\* the match at the least of the offsets hits, if any
FirstMatch(pat, text, hits) ==
  IF hits = {} THEN NoMatch ELSE MatchAt(pat, text, Least(hits))

\* RegExp.prototype.exec from lastIndex: the leftmost match at or after from
Exec(pat, text, from) ==
  FirstMatch(pat, text,
             {i \in from..Len(text) : MatchFrom(pat, text, i, NoCaps).ok})

\* String.prototype.match without /g: the first match in the text
Match(pat, text) == Exec(pat, text, 0)

(***************************************************************************)
(* String.prototype methods                                                *)
(***************************************************************************)
\* text.substring(a, b) for 0 <= a, b <= length (the arguments are swapped
\* when a > b)
Substring(text, a, b) ==
  IF a <= b THEN SubSeq(text, a + 1, b) ELSE SubSeq(text, b + 1, a)

\* the text of capture group k of a match
Group(m, text, k) == Substring(text, m.caps[k][1], m.caps[k][2])

TrimStart(s) == SubSeq(s, RunLen(WS, s, 0, -1) + 1, Len(s))

TrimEnd(s) ==
  LET black == {i \in 1..Len(s) : s[i] \notin WS}
  IN IF black = {} THEN <<>> ELSE SubSeq(s, 1, Greatest(black))

\* text.trim()
Trim(s) == TrimEnd(TrimStart(s))

\* text.replace(/\s+/g, " ") on the characters a+1..b of s (by halves): a
\* whitespace character that follows another one is dropped, the first of a
\* run becomes a space
RECURSIVE CollapseBetween(_, _, _)
CollapseBetween(s, a, b) ==
  IF a >= b THEN <<>>
  ELSE IF b - a = 1
    THEN (IF s[b] \notin WS THEN <<s[b]>>
          ELSE IF b > 1 /\ s[b - 1] \in WS THEN <<>> ELSE <<" ">>)
    ELSE LET mid == (a + b) \div 2
         IN CollapseBetween(s, a, mid) \o CollapseBetween(s, mid, b)

\* text.replace(/\s\s/g, " ") from the offset i on: whitespace is collapsed
\* by pairs, not by runs
RECURSIVE CollapsePairsFrom(_, _)
CollapsePairsFrom(s, i) ==
  IF i > Len(s) THEN <<>>
  ELSE IF s[i] \in WS /\ i < Len(s) /\ s[i + 1] \in WS
    THEN <<" ">> \o CollapsePairsFrom(s, i + 2)
    ELSE <<s[i]>> \o CollapsePairsFrom(s, i + 1)

\* CollapseWS with a plausible slip: /\s\s/g for /\s+/g
CollapseWS_pairs(s) == CollapsePairsFrom(s, 1)

\* text.replace(/\s+/g, " ")
CollapseWS(s) == CollapseBetween(s, 0, Len(s))

\* text.replace(/c/g, r) for a single character c and a replacement string r
\* (by halves)
RECURSIVE ReplaceChar(_, _, _)
ReplaceChar(s, c, r) ==
  IF Len(s) = 0 THEN <<>>
  ELSE IF Len(s) = 1 THEN (IF s[1] = c THEN r ELSE s)
  ELSE LET mid == Len(s) \div 2
       IN ReplaceChar(SubSeq(s, 1, mid), c, r)
          \o ReplaceChar(SubSeq(s, mid + 1, Len(s)), c, r)

\* parts.join(sep)
RECURSIVE Join(_, _)
Join(parts, sep) ==
  IF Len(parts) = 0 THEN <<>>
  ELSE IF Len(parts) = 1 THEN parts[1]
  ELSE parts[1] \o sep \o Join(Tail(parts), sep)

\* hay.indexOf(needle): the offset of the first occurrence, -1 if none
IndexOf(hay, needle) ==
  LET hits == {i \in 0..(Len(hay) - Len(needle)) :
                 Substring(hay, i, i + Len(needle)) = needle}
  IN IF hits = {} THEN -1 ELSE Least(hits)

(***************************************************************************)
(* pdf-parser.ts: cleanText and splitBulletPoints                          *)
(***************************************************************************)
cleanText(text) ==
  Trim(ReplaceChar(ReplaceChar(ReplaceChar(ReplaceChar(ReplaceChar(
         CollapseWS(text),
         "LDQUO", <<"\"">>), "RDQUO", <<"\"">>), "LSQUO", <<"'">>),
         "RSQUO", <<"'">>), "HELLIP", <<".", ".", ".">>))

\* [A-Za-z\s,/&'()\[\]‘’–—-]
HeadingClass ==
  Letter \cup WS \cup
  {",", "/", "&", "'", "(", ")", "[", "]", "LSQUO", "RSQUO", "NDASH", "MDASH", "-"}

\* /(?:^|[."”“]\s+)([A-Z][A-Za-z][...]{8,118}?(?:\.\s|:\s|\s[–—―-]\s))/g
headingPattern ==
  << Alt(<< <<Bos>>,
            <<Ch({".", "\"", "RDQUO", "LDQUO"}), Plus(WS)>> >>),
     Open(1),
     Ch(Upper), Ch(Letter), LazyRep(HeadingClass, 8, 118),
     Alt(<< <<Ch({"."}), Ch(WS)>>,
            <<Ch({":"}), Ch(WS)>>,
            <<Ch(WS), Ch({"NDASH", "MDASH", "HBAR", "-"}), Ch(WS)>> >>),
     Close(1) >>

NON_HEADING_STARTERS ==
  {<<"T","h","e","y">>,
   <<"A","n","d">>,
   <<"T","h","e">>,
   <<"B","u","t">>,
   <<"I","t">>,
   <<"W","e">>,
   <<"H","e">>,
   <<"S","h","e">>,
   <<"T","h","a","t">>,
   <<"T","h","i","s">>,
   <<"H","o","w","e","v","e","r">>,
   <<"A","l","s","o">>,
   <<"N","o","t">>,
   <<"F","o","r">>,
   <<"A","s">>,
   <<"I","f">>,
   <<"W","h","e","n">>,
   <<"W","h","e","r","e">>,
   <<"W","h","i","l","e">>,
   <<"A","l","t","h","o","u","g","h">>,
   <<"B","e","c","a","u","s","e">>,
   <<"S","i","n","c","e">>,
   <<"O","r">>,
   <<"S","o">>,
   <<"Y","e","t">>,
   <<"B","o","t","h">>,
   <<"E","a","c","h">>,
   <<"O","v","e","r">>,
   <<"F","r","o","m">>,
   <<"W","i","t","h">>,
   <<"I","n","t","o">>,
   <<"A","f","t","e","r">>,
   <<"B","e","f","o","r","e">>,
   <<"U","p","o","n">>}

\* headingText.split(/[\s,]/)[0]
firstWord(s) == SubSeq(s, 1, RunLen(Alphabet \ (WS \cup {","}), s, 0, -1))

\* text.replace(/\n/g, " ").replace(/\s+/g, " ").trim()
flatten(text) == Trim(CollapseWS(ReplaceChar(text, "\n", <<" ">>)))

\* match.index + match[0].indexOf(match[1]): the offset where the heading of
\* the match m starts
headingStartOf(joined, m) ==
  m.start + IndexOf(Substring(joined, m.start, m.end), Group(m, joined, 1))

\* headingSplits with a plausible slip: the heading is taken to start at
\* match.index, the offset of the punctuation before it
RECURSIVE headingSplits_matchIndex(_, _, _), afterMatch_matchIndex(_, _, _)
headingSplits_matchIndex(joined, lastIndex, splits) ==
  afterMatch_matchIndex(joined, splits, Exec(headingPattern, joined, lastIndex))

afterMatch_matchIndex(joined, splits, m) ==
  IF ~m.ok THEN splits
  ELSE IF firstWord(Group(m, joined, 1)) \in NON_HEADING_STARTERS
    THEN headingSplits_matchIndex(joined, m.end, splits)
    ELSE IF m.start > 0
      THEN headingSplits_matchIndex(joined, m.end, Append(splits, m.start))
      ELSE headingSplits_matchIndex(joined, m.end, splits)

\* the while loop over headingPattern.exec(joined): the split offsets, from
\* lastIndex on
RECURSIVE headingSplits(_, _, _), afterMatch(_, _, _)
headingSplits(joined, lastIndex, splits) ==
  afterMatch(joined, splits, Exec(headingPattern, joined, lastIndex))

\* the body of the while loop for the match m (null: the loop ends)
afterMatch(joined, splits, m) ==
  IF ~m.ok THEN splits
  ELSE IF firstWord(Group(m, joined, 1)) \in NON_HEADING_STARTERS
    THEN headingSplits(joined, m.end, splits)
    ELSE IF headingStartOf(joined, m) > 0
      THEN headingSplits(joined, m.end, Append(splits, headingStartOf(joined, m)))
      ELSE headingSplits(joined, m.end, splits)

\* bulletChunks with a plausible slip: the chunk is pushed as it is, without
\* cleanText
RECURSIVE bulletChunks_raw(_, _, _)
bulletChunks_raw(joined, splits, i) ==
  IF i > Len(splits) THEN <<>>
  ELSE LET start == splits[i]
           end == IF i + 1 <= Len(splits) THEN splits[i + 1] ELSE Len(joined)
           chunk == Trim(Substring(joined, start, end))
       IN (IF Len(chunk) > 10 THEN <<chunk>> ELSE <<>>)
          \o bulletChunks_raw(joined, splits, i + 1)

\* bulletChunks with a plausible slip: every non-empty chunk is kept
RECURSIVE bulletChunks_keepShort(_, _, _)
bulletChunks_keepShort(joined, splits, i) ==
  IF i > Len(splits) THEN <<>>
  ELSE LET start == splits[i]
           end == IF i + 1 <= Len(splits) THEN splits[i + 1] ELSE Len(joined)
           chunk == Trim(Substring(joined, start, end))
       IN (IF Len(chunk) > 0 THEN <<cleanText(chunk)>> ELSE <<>>)
          \o bulletChunks_keepShort(joined, splits, i + 1)

\* the for loop over the split offsets: the chunks longer than 10, cleaned
RECURSIVE bulletChunks(_, _, _)
bulletChunks(joined, splits, i) ==
  IF i > Len(splits) THEN <<>>
  ELSE LET start == splits[i]
           end == IF i + 1 <= Len(splits) THEN splits[i + 1] ELSE Len(joined)
           chunk == Trim(Substring(joined, start, end))
       IN (IF Len(chunk) > 10 THEN <<cleanText(chunk)>> ELSE <<>>)
          \o bulletChunks(joined, splits, i + 1)

\* "If regex found no splits, return the whole text as one point"
pointsOrWhole(joined, points) ==
  IF Len(points) = 0 /\ Len(joined) > 10 THEN <<cleanText(joined)>> ELSE points

\* splitBulletPoints for the flattened text joined
splitJoined(joined) ==
  pointsOrWhole(joined, bulletChunks(joined, headingSplits(joined, 0, <<0>>), 1))

splitBulletPoints(text) ==
  IF Len(Trim(text)) = 0 THEN <<>> ELSE splitJoined(flatten(text))

(***************************************************************************)
(* Bounds of the model                                                     *)
(***************************************************************************)
\* the number of fragments an input text is made of
MaxFrags == 3

(***************************************************************************)
(* Section texts given to splitBulletPoints: any sequence of at most       *)
(* MaxFrags of these fragments                                             *)
(***************************************************************************)
BulletFragments ==
  {
   \* 'Strong work. ok. '
   <<"S","t","r","o","n","g"," ","w","o","r","k","."," ","o","k","."," ">>,
   \* 'They said so. '
   <<"T","h","e","y"," ","s","a","i","d"," ","s","o","."," ">>,
   \* 'Hi. '
   <<"H","i","."," ">>,
   \* 'it went well.\n'
   <<"i","t"," ","w","e","n","t"," ","w","e","l","l",".","\n">>,
   \* '“Good”. '
   <<"LDQUO","G","o","o","d","RDQUO","."," ">>,
   \* 'Wait… '
   <<"W","a","i","t","HELLIP"," ">>,
   \* 'Key points – ok. '
   <<"K","e","y"," ","p","o","i","n","t","s"," ","NDASH"," ","o","k","."," ">>
  }

\* no text yet, nothing computed
Init ==
  /\ input = <<>>
  /\ nfrag = 0
  /\ pc = "build"
  /\ out = <<>>

\* the section text grows by one fragment
BulletsAppend ==
  /\ pc = "build"
  /\ nfrag < MaxFrags
  /\ \E f \in BulletFragments : input' = input \o f
  /\ nfrag' = nfrag + 1
  /\ UNCHANGED <<pc, out>>

\* splitBulletPoints(input) is called
BulletsSplit ==
  /\ pc = "build"
  /\ out' = splitBulletPoints(input)
  /\ pc' = "done"
  /\ UNCHANGED <<input, nfrag>>

BulletsNext == BulletsAppend \/ BulletsSplit

SpecBullets == Init /\ [][BulletsNext]_vars

(***************************************************************************)
(* Claims about splitBulletPoints (checked under SpecBullets)              *)
(***************************************************************************)
\* no split point is detected in the section text: the loop over
\* headingPattern.exec leaves splits = [0]
NoSplitDetected(text) == headingSplits(flatten(text), 0, <<0>>) = <<0>>

\* C2: for a non-empty section text the bullets joined by single spaces are
\* cleanText of the flattened text without a discarded leading part: nothing
\* is reordered or duplicated, the discarded part is one slice of at most 10
\* characters (after trimming), and fewer than 20 characters are omitted.
C2_BulletsKeepContent ==
  (pc = "done" /\ Len(Trim(input)) > 0) =>
    LET joined == flatten(input)
    IN \E d \in 0..19 :
         /\ d <= Len(joined)
         /\ Len(Trim(Substring(joined, 0, d))) <= 10
         /\ Join(out, <<" ">>) = cleanText(Substring(joined, d, Len(joined)))

\* C2 witness: a short leading slice was discarded and two bullets returned
C2_Witness ==
  /\ pc = "done"
  /\ Len(out) >= 2
  /\ Join(out, <<" ">>) # cleanText(input)

C4_BulletsAtLeastTen ==
  pc = "done" => \A i \in 1..Len(out) : Len(out[i]) > 0 /\ Len(out[i]) >= 10

\* C4 witness: a slice too short was discarded and the other slices returned
C4_Witness ==
  /\ pc = "done"
  /\ Len(out) >= 1
  /\ Len(Join(out, <<" ">>)) < Len(cleanText(input))

(***************************************************************************)
(* pdf-parser.ts: extractSections                                          *)
(***************************************************************************)
NL == Lit(<<"\n">>)

\* the table of section markers, in the order of the source
sectionMarkers ==
  << \* /\nOverview\n/i
     [key |-> "overview",
      pattern |-> NL \o LitI(<<"O","v","e","r","v","i","e","w">>) \o NL],
     \* /\nWhat Went Well\n/i
     [key |-> "whatWentWell",
      pattern |-> NL \o LitI(<<"W","h","a","t"," ","W","e","n","t"," ","W","e","l","l">>) \o NL],
     \* /\nChallenges\s*\/?\s*Pain\s*\n?\s*Points\n/i
     [key |-> "challengesPainPoints",
      pattern |-> NL \o LitI(<<"C","h","a","l","l","e","n","g","e","s">>)
                  \o <<Star(WS), Opt({"/"}), Star(WS)>> \o LitI(<<"P","a","i","n">>)
                  \o <<Star(WS), Opt({"\n"}), Star(WS)>> \o LitI(<<"P","o","i","n","t","s">>) \o NL],
     \* /\nGaps Identified\s*\n?\s*\(?raised by\s*\n?\s*interviewee\)?\n/i
     [key |-> "gapsIdentified",
      pattern |-> NL \o LitI(<<"G","a","p","s"," ","I","d","e","n","t","i","f","i","e","d">>)
                  \o <<Star(WS), Opt({"\n"}), Star(WS), Opt({"("})>> \o LitI(<<"r","a","i","s","e","d"," ","b","y">>)
                  \o <<Star(WS), Opt({"\n"}), Star(WS)>> \o LitI(<<"i","n","t","e","r","v","i","e","w","e","e">>)
                  \o <<Opt({")"})>> \o NL],
     \* /\nKey Themes\n/i
     [key |-> "keyThemes",
      pattern |-> NL \o LitI(<<"K","e","y"," ","T","h","e","m","e","s">>) \o NL],
     \* /\nActions\s*&?\s*\n?\s*Recommendations\n/i
     [key |-> "actionsRecommendations",
      pattern |-> NL \o LitI(<<"A","c","t","i","o","n","s">>)
                  \o <<Star(WS), Opt({"&"}), Star(WS), Opt({"\n"}), Star(WS)>>
                  \o LitI(<<"R","e","c","o","m","m","e","n","d","a","t","i","o","n","s">>) \o NL],
     \* /\nAdditional Insight\n/i
     [key |-> "additionalInsight",
      pattern |-> NL \o LitI(<<"A","d","d","i","t","i","o","n","a","l"," ","I","n","s","i","g","h","t">>) \o NL] >>

SectionKeys == {sectionMarkers[i].key : i \in 1..Len(sectionMarkers)}

\* pushPosition with a plausible slip: start is match.index, the offset
\* where the heading begins, not the offset just past it
pushPosition_fromIndex(i, m) ==
  IF m.ok
    THEN <<[key |-> sectionMarkers[i].key, start |-> m.start, end |-> 0]>>
    ELSE <<>>

\* positions.push(...) for the match m of marker i (nothing when m is null)
pushPosition(i, m) ==
  IF m.ok
    THEN <<[key |-> sectionMarkers[i].key, start |-> m.end, end |-> 0]>>
    ELSE <<>>

\* the first loop: one position per marker that matches, in table order
RECURSIVE markerPositions(_, _)
markerPositions(text, i) ==
  IF i > Len(sectionMarkers) THEN <<>>
  ELSE pushPosition(i, Match(sectionMarkers[i].pattern, text))
       \o markerPositions(text, i + 1)

\* positions.sort((a, b) => a.start - b.start): a stable sort by start
RECURSIVE insertByStart(_, _)
insertByStart(sorted, p) ==
  IF Len(sorted) = 0 THEN <<p>>
  ELSE IF sorted[Len(sorted)].start <= p.start THEN Append(sorted, p)
  ELSE Append(insertByStart(SubSeq(sorted, 1, Len(sorted) - 1), p),
              sorted[Len(sorted)])

\* sortByStart with a plausible slip: the positions stay in table order
sortByStart_tableOrder(positions) == positions

RECURSIVE sortByStart(_)
sortByStart(positions) ==
  IF Len(positions) = 0 THEN <<>>
  ELSE insertByStart(sortByStart(SubSeq(positions, 1, Len(positions) - 1)),
                     positions[Len(positions)])

\* the second loop: each end is the next start, the last one text.length
setEnds(positions, length) ==
  [i \in 1..Len(positions) |->
     [positions[i] EXCEPT !.end = IF i + 1 <= Len(positions)
                                    THEN positions[i + 1].start
                                    ELSE length]]

\* positions after the sort and the second loop
sectionPositions(text) ==
  setEnds(sortByStart(markerPositions(text, 1)), Len(text))

\* the position of section key among positions
positionOf(positions, key) ==
  positions[CHOOSE i \in 1..Len(positions) : positions[i].key = key]

\* the third loop: sectionTexts[pos.key] for the positions found
textsOf(text, positions) ==
  [k \in {positions[i].key : i \in 1..Len(positions)} |->
     Trim(Substring(text, positionOf(positions, k).start,
                    positionOf(positions, k).end))]

sectionTexts(text) == textsOf(text, sectionPositions(text))

\* sectionTexts[key] || ""
textOrEmpty(texts, key) == IF key \in DOMAIN texts THEN texts[key] ELSE <<>>

\* the record extractSections returns for sectionTexts = texts
sectionsOf(texts) ==
  [overview |-> textOrEmpty(texts, "overview"),
   whatWentWell |-> splitBulletPoints(textOrEmpty(texts, "whatWentWell")),
   challengesPainPoints |->
     splitBulletPoints(textOrEmpty(texts, "challengesPainPoints")),
   gapsIdentified |-> splitBulletPoints(textOrEmpty(texts, "gapsIdentified")),
   keyThemes |-> splitBulletPoints(textOrEmpty(texts, "keyThemes")),
   actionsRecommendations |->
     splitBulletPoints(textOrEmpty(texts, "actionsRecommendations")),
   additionalInsight |-> textOrEmpty(texts, "additionalInsight")]

extractSections(text) == sectionsOf(sectionTexts(text))

(***************************************************************************)
(* Report texts given to extractSections: any sequence of at most MaxFrags *)
(* of these fragments (lines, headings, headings with their body)          *)
(***************************************************************************)
SectionFragments ==
  {
   \* 'Report\n'
   <<"R","e","p","o","r","t","\n">>,
   \* 'Overview\nAll fine.\n'
   <<"O","v","e","r","v","i","e","w","\n","A","l","l"," ","f","i","n","e",
     ".","\n">>,
   \* 'What Went Well\nStrong work. ok.\n'
   <<"W","h","a","t"," ","W","e","n","t"," ","W","e","l","l","\n","S","t",
     "r","o","n","g"," ","w","o","r","k","."," ","o","k",".","\n">>,
   \* 'Challenges/ Pain\nPoints\n'
   <<"C","h","a","l","l","e","n","g","e","s","/"," ","P","a","i","n","\n",
     "P","o","i","n","t","s","\n">>,
   \* 'Gaps Identified (raised by\ninterviewee)\nNone.\n'
   <<"G","a","p","s"," ","I","d","e","n","t","i","f","i","e","d"," ","(",
     "r","a","i","s","e","d"," ","b","y","\n","i","n","t","e","r","v","i",
     "e","w","e","e",")","\n","N","o","n","e",".","\n">>,
   \* 'key themes\nKey points – ok. Hi.\n'
   <<"k","e","y"," ","t","h","e","m","e","s","\n","K","e","y"," ","p","o",
     "i","n","t","s"," ","NDASH"," ","o","k","."," ","H","i",".","\n">>,
   \* 'Actions &\nRecommendations\n'
   <<"A","c","t","i","o","n","s"," ","&","\n","R","e","c","o","m","m","e",
     "n","d","a","t","i","o","n","s","\n">>,
   \* 'Additional Insight\n'
   <<"A","d","d","i","t","i","o","n","a","l"," ","I","n","s","i","g","h",
     "t","\n">>,
   \* 'They said so.\n'
   <<"T","h","e","y"," ","s","a","i","d"," ","s","o",".","\n">>
  }

\* the report text grows by one fragment
SectionsAppend ==
  /\ pc = "build"
  /\ nfrag < MaxFrags
  /\ \E f \in SectionFragments : input' = input \o f
  /\ nfrag' = nfrag + 1
  /\ UNCHANGED <<pc, out>>

\* extractSections(input) is called; out keeps its positions and
\* sectionTexts beside the value it returns
SectionsExtract ==
  /\ pc = "build"
  /\ out' = [positions |-> sectionPositions(input),
             sectionTexts |-> sectionTexts(input),
             sections |-> extractSections(input)]
  /\ pc' = "done"
  /\ UNCHANGED <<input, nfrag>>

SectionsNext == SectionsAppend \/ SectionsExtract

SpecSections == Init /\ [][SectionsNext]_vars

(***************************************************************************)
(* Claims about extractSections (checked under SpecSections)               *)
(***************************************************************************)
\* the markers of the table whose pattern matches the text
matchedMarkers(text) ==
  {i \in 1..Len(sectionMarkers) : Match(sectionMarkers[i].pattern, text).ok}

\* the first match of the heading of section key in the text
headingMatch(text, key) ==
  Match(sectionMarkers[CHOOSE i \in 1..Len(sectionMarkers) :
                         sectionMarkers[i].key = key].pattern, text)

\* the spans [start, end) of the text, one after the other
RECURSIVE concatSpans(_, _, _)
concatSpans(text, positions, j) ==
  IF j > Len(positions) THEN <<>>
  ELSE Substring(text, positions[j].start, positions[j].end)
       \o concatSpans(text, positions, j + 1)

\* C5: the spans of the sections found, in offset order, are contiguous and
\* do not overlap: the first starts just past the earliest matched heading,
\* each ends where the next starts, the last ends at the end of the text, and
\* together they are the text from just past the first matched heading on.
C5_SpansPartition ==
  pc = "done" =>
    LET P == out.positions
        n == Len(P)
        matched == matchedMarkers(input)
    IN /\ n = Cardinality(matched)
       /\ n > 0 =>
            /\ P[1].start =
                 Least({Match(sectionMarkers[i].pattern, input).end : i \in matched})
            /\ \A j \in 1..n : P[j].start <= P[j].end
            /\ \A j \in 1..(n - 1) : P[j].end = P[j + 1].start
            /\ P[n].end = Len(input)
            /\ concatSpans(input, P, 1) = Substring(input, P[1].start, Len(input))

\* C5 witness: two sections found, the first of them later in the table
\* than the second
C5_Witness ==
  /\ pc = "done"
  /\ Len(out.positions) = 2
  /\ out.positions[1].key = "keyThemes"
  /\ out.positions[2].key = "whatWentWell"

\* C6: the text of a section is the text between its heading and the next
\* recognized heading of the document: it stops where the heading line of
\* the section that follows it starts.
C6_SectionStopsAtNextHeading ==
  pc = "done" =>
    LET P == out.positions
    IN \A j \in 1..(Len(P) - 1) :
         LET next == headingMatch(input, P[j + 1].key).start
             stop == IF next < P[j].start THEN P[j].start ELSE next
         IN out.sectionTexts[P[j].key] = Trim(Substring(input, P[j].start, stop))

\* C7: a section whose heading occurs is given text that begins right after
\* the first occurrence of its own heading, whatever the order of the table;
\* a section whose heading does not occur is given nothing and yields the
\* empty array or the empty string.
C7_TextAfterOwnHeading ==
  pc = "done" =>
    \A i \in 1..Len(sectionMarkers) :
      LET key == sectionMarkers[i].key
          m == Match(sectionMarkers[i].pattern, input)
      IN IF m.ok
           THEN /\ key \in DOMAIN out.sectionTexts
                /\ \E e \in m.end..Len(input) :
                     out.sectionTexts[key] = Trim(Substring(input, m.end, e))
                /\ key \in {"overview", "additionalInsight"} =>
                     out.sections[key] = out.sectionTexts[key]
           ELSE /\ key \notin DOMAIN out.sectionTexts
                /\ out.sections[key] = <<>>

\* C7 witness: Overview stands after Key Themes in the text (before it in the
\* table), both were given text, and What Went Well does not occur
C7_Witness ==
  /\ pc = "done"
  /\ Len(out.positions) = 2
  /\ out.positions[1].key = "keyThemes"
  /\ out.positions[2].key = "overview"
  /\ Len(out.sections.overview) > 0
  /\ Len(out.sections.keyThemes) > 0
  /\ out.sections.whatWentWell = <<>>

(***************************************************************************)
(* Values of JavaScript that are not strings                               *)
(***************************************************************************)
\* a number, NaN and null
JsNumber(n) == [kind |-> "number", n |-> n]
NaN == [kind |-> "NaN", n |-> 0]
Null == [kind |-> "null", n |-> 0]

\* the outcome of a call that ends in "TypeError: Cannot read properties of
\* undefined"
TypeError == [threw |-> "TypeError"]

\* A function inherited from Object.prototype, as the value of a property
\* read and as the text a template literal makes of it: one opaque token
\* followed by the property name, which no text of the model equals
NativeFunction(key) == <<"FUNCTION">> \o key

\* the property names every object literal inherits from Object.prototype
\* (those without "_")
ObjectPrototypeKeys ==
  {<<"c","o","n","s","t","r","u","c","t","o","r">>, <<"t","o","S","t","r","i","n","g">>, <<"t","o","L","o","c","a","l","e","S","t","r","i","n","g">>, <<"v","a","l","u","e","O","f">>, <<"h","a","s","O","w","n","P","r","o","p","e","r","t","y">>,
   <<"i","s","P","r","o","t","o","t","y","p","e","O","f">>, <<"p","r","o","p","e","r","t","y","I","s","E","n","u","m","e","r","a","b","l","e">>}

\* MAP[key] || fallback for an object literal MAP whose own values are
\* non-empty strings: an own property, else an inherited one, else fallback
Lookup(map, key, fallback) ==
  IF key \in DOMAIN map THEN map[key]
  ELSE IF key \in ObjectPrototypeKeys THEN NativeFunction(key)
  ELSE fallback

DigitSeq == <<"0","1","2","3","4","5","6","7","8","9">>

\* the value of a string of decimal digits
RECURSIVE DecimalValue(_)
DecimalValue(digits) ==
  IF Len(digits) = 0 THEN 0
  ELSE 10 * DecimalValue(SubSeq(digits, 1, Len(digits) - 1))
       + (CHOOSE v \in 0..9 : DigitSeq[v + 1] = digits[Len(digits)])

\* the number parseInt makes of the text after leading whitespace was dropped
parseTrimmed(s, sign) ==
  IF RunLen(Digit, s, sign, -1) = 0 THEN NaN
  ELSE JsNumber((IF sign = 1 /\ s[1] = "-" THEN -1 ELSE 1)
                * DecimalValue(SubSeq(s, sign + 1,
                                      sign + RunLen(Digit, s, sign, -1))))

\* parseInt(str, 10): leading whitespace, a sign, then the longest run of
\* digits; NaN when there is no digit
parseInt(str) ==
  parseTrimmed(TrimStart(str),
               IF Len(TrimStart(str)) > 0 /\ TrimStart(str)[1] \in {"+", "-"}
                 THEN 1 ELSE 0)

\* text.split(sep) for a non-empty separator
RECURSIVE Split(_, _)
Split(text, sep) ==
  IF IndexOf(text, sep) = -1 THEN <<text>>
  ELSE <<Substring(text, 0, IndexOf(text, sep))>>
       \o Split(Substring(text, IndexOf(text, sep) + Len(sep), Len(text)), sep)

\* text.replace(pattern, r) without /g, m being the first match of the pattern
ReplaceMatch(text, m, r) ==
  IF m.ok
    THEN Substring(text, 0, m.start) \o r \o Substring(text, m.end, Len(text))
    ELSE text

\* an index argument of slice: negative counts from the end, clamped
SliceIndex(len, i) ==
  IF i < 0 THEN (IF len + i < 0 THEN 0 ELSE len + i)
  ELSE IF i > len THEN len ELSE i

\* text.slice(a, b)
Slice(text, a, b) ==
  SubSeq(text, SliceIndex(Len(text), a) + 1, SliceIndex(Len(text), b))

(***************************************************************************)
(* Filename parsing: parseFilenameMetadata (pdf-parser.ts) and             *)
(* parseTranscriptFilename (transcript-parser.ts)                          *)
(***************************************************************************)
MONTH_MAP ==
  <<"J","A","N">> :> <<"0","1">> @@ <<"F","E","B">> :> <<"0","2">> @@ <<"M","A","R">> :> <<"0","3">> @@ <<"A","P","R">> :> <<"0","4">> @@
  <<"M","A","Y">> :> <<"0","5">> @@ <<"J","U","N">> :> <<"0","6">> @@ <<"J","U","L">> :> <<"0","7">> @@ <<"A","U","G">> :> <<"0","8">> @@
  <<"S","E","P">> :> <<"0","9">> @@ <<"O","C","T">> :> <<"1","0">> @@ <<"N","O","V">> :> <<"1","1">> @@ <<"D","E","C">> :> <<"1","2">>

SOLUTION_MAP ==
  <<"E","S">> :> <<"E","x","e","c","u","t","i","v","e"," ","S","e","a","r","c","h">> @@ <<"P","S">> :> <<"P","r","o","f","e","s","s","i","o","n","a","l"," ","S","e","a","r","c","h">> @@
  <<"C","O","N","S","U","L","T","I","N","G">> :> <<"C","o","n","s","u","l","t","i","n","g">>

ACCOUNT_TYPE_MAP ==
  <<"H","O","U","S","E">> :> <<"H","o","u","s","e">> @@ <<"D","I","A","M","O","N","D">> :> <<"D","i","a","m","o","n","d">> @@ <<"M","A","R","Q","U","E","E">> :> <<"M","a","r","q","u","e","e">> @@
  <<"R","E","G","I","O","N","A","L">> :> <<"R","e","g","i","o","n","a","l">>

\* filename.replace(/\.pdf$/i, "").split("_")
filenameParts(filename) ==
  Split(ReplaceMatch(filename,
                     Match(Lit(<<".">>) \o LitI(<<"p","d","f">>) \o <<Eos>>, filename), <<>>),
        <<"_">>)

\* parseInt(parts[1].replace(/^NPS/, ""), 10)
filenameScore(part) ==
  parseInt(ReplaceMatch(part, Match(<<Bos>> \o Lit(<<"N","P","S">>), part), <<>>))

\* `20${monthYearRaw.slice(-2)}-${MONTH_MAP[monthYearRaw.slice(0, -2)] || "01"}`
filenameMonthYear(monthYearRaw) ==
  <<"2","0">> \o Slice(monthYearRaw, -2, Len(monthYearRaw)) \o <<"-">>
  \o Lookup(MONTH_MAP, Slice(monthYearRaw, 0, -2), <<"0","1">>)

\* filenameMetadataOf with a plausible slip: a missing token is read as the
\* empty string (parts[k] || ""), so no property of undefined is read
filenameMetadataOf_orEmpty(parts) ==
  [reportCode |-> parts[1],
   score |-> filenameScore(IF Len(parts) >= 2 THEN parts[2] ELSE <<>>),
   region |-> IF Len(parts) >= 3 THEN parts[3] ELSE <<>>,
   solution |-> IF Len(parts) >= 4
                  THEN Lookup(SOLUTION_MAP, parts[4], parts[4]) ELSE <<>>,
   accountType |-> IF Len(parts) >= 5
                     THEN Lookup(ACCOUNT_TYPE_MAP, parts[5], parts[5]) ELSE <<>>,
   monthYear |-> filenameMonthYear(IF Len(parts) >= 6 THEN parts[6] ELSE <<>>)]

\* parseFilenameMetadata from parts on; parts[k] of the code is parts[k + 1]
\* here.  parts[1].replace and parts[5].slice read a property of undefined
\* when the token is missing.
filenameMetadataOf(parts) ==
  IF Len(parts) < 2 THEN TypeError
  ELSE IF Len(parts) < 6 THEN TypeError
  ELSE [reportCode |-> parts[1],
        score |-> filenameScore(parts[2]),
        region |-> parts[3],
        solution |-> Lookup(SOLUTION_MAP, parts[4], parts[4]),
        accountType |-> Lookup(ACCOUNT_TYPE_MAP, parts[5], parts[5]),
        monthYear |-> filenameMonthYear(parts[6])]

parseFilenameMetadata(filename) == filenameMetadataOf(filenameParts(filename))

\* parseTranscriptFilename from parts on
transcriptFilenameOf(parts) ==
  IF Len(parts) < 2 THEN TypeError
  ELSE IF Len(parts) < 6 THEN TypeError
  ELSE [transcriptCode |-> parts[1],
        score |-> filenameScore(parts[2]),
        region |-> parts[3],
        solution |-> Lookup(SOLUTION_MAP, parts[4], parts[4]),
        accountType |-> Lookup(ACCOUNT_TYPE_MAP, parts[5], parts[5]),
        monthYear |-> filenameMonthYear(parts[6])]

parseTranscriptFilename(filename) ==
  transcriptFilenameOf(filenameParts(filename))

(***************************************************************************)
(* Filenames given to the two parsers: at most MaxTokens tokens joined by  *)
(* "_", token k drawn from TokenPalette(k), with or without an extension   *)
(***************************************************************************)
MaxTokens == 7

TokenPalette(k) ==
  CASE k = 1 -> {<<"R","2","9">>, <<"T","1">>}
    [] k = 2 -> {<<"N","P","S","1","0">>, <<"N","P","S","6">>, <<"N","P","S","0">>, <<"N","P","S">>}
    [] k = 3 -> {<<"N","A">>, <<"E","M","E","A">>}
    [] k = 4 -> {<<"E","S">>, <<"P","S">>, <<"C","O","N","S","U","L","T","I","N","G">>, <<"R","P","O">>, <<"c","o","n","s","t","r","u","c","t","o","r">>}
    [] k = 5 -> {<<"H","O","U","S","E">>, <<"D","I","A","M","O","N","D">>, <<"M","A","R","Q","U","E","E">>, <<"R","E","G","I","O","N","A","L">>, <<"G","L","O","B","A","L">>, <<"t","o","S","t","r","i","n","g">>}
    [] k = 6 -> {<<"D","E","C","2","5">>, <<"S","E","P","2","5">>, <<"J","A","N","2","6">>, <<"X","Y","Z","2","5">>, <<"v","a","l","u","e","O","f","2","5">>, <<"X">>}
    [] OTHER -> {<<"c","o","p","y">>}

Extensions == {<<>>, <<".","p","d","f">>, <<".","P","D","F">>}

\* what the two parsers make of one filename
parseBoth(filename) ==
  [filename |-> filename,
   report |-> parseFilenameMetadata(filename),
   transcript |-> parseTranscriptFilename(filename)]

\* the filename grows by one token; input is the sequence of the tokens
FilenameAppend ==
  /\ pc = "build"
  /\ nfrag < MaxTokens
  /\ \E token \in TokenPalette(nfrag + 1) : input' = Append(input, token)
  /\ nfrag' = nfrag + 1
  /\ UNCHANGED <<pc, out>>

\* both parsers are called with the tokens joined by "_" plus an extension
FilenameParse ==
  /\ pc = "build"
  /\ \E ext \in Extensions : out' = parseBoth(Join(input, <<"_">>) \o ext)
  /\ pc' = "done"
  /\ UNCHANGED <<input, nfrag>>

FilenameNext == FilenameAppend \/ FilenameParse

SpecFilename == Init /\ [][FilenameNext]_vars

(***************************************************************************)
(* Claims about the filename parsers (under SpecFilename)                  *)
(***************************************************************************)
\* the decimal numeral of n, for 0 <= n <= 99
DecimalString(n) ==
  IF n < 10 THEN <<DigitSeq[n + 1]>>
  ELSE <<DigitSeq[(n \div 10) + 1], DigitSeq[(n % 10) + 1]>>

\* n as two digits, for 0 <= n <= 99
TwoDigits(n) == <<DigitSeq[(n \div 10) + 1], DigitSeq[(n % 10) + 1]>>

\* the largest score a filename of the model carries
MaxScore == 10

MonthCodes ==
  <<<<"J","A","N">>, <<"F","E","B">>, <<"M","A","R">>, <<"A","P","R">>, <<"M","A","Y">>, <<"J","U","N">>, <<"J","U","L">>, <<"A","U","G">>, <<"S","E","P">>, <<"O","C","T">>,
    <<"N","O","V">>, <<"D","E","C">>>>

SolutionNames ==
  <<"E","S">> :> <<"E","x","e","c","u","t","i","v","e"," ","S","e","a","r","c","h">> @@ <<"P","S">> :> <<"P","r","o","f","e","s","s","i","o","n","a","l"," ","S","e","a","r","c","h">> @@
  <<"C","O","N","S","U","L","T","I","N","G">> :> <<"C","o","n","s","u","l","t","i","n","g">>

AccountTypeNames ==
  <<"H","O","U","S","E">> :> <<"H","o","u","s","e">> @@ <<"D","I","A","M","O","N","D">> :> <<"D","i","a","m","o","n","d">> @@ <<"M","A","R","Q","U","E","E">> :> <<"M","a","r","q","u","e","e">> @@
  <<"R","E","G","I","O","N","A","L">> :> <<"R","e","g","i","o","n","a","l">>

\* the tokens have the shape code, NPS<d>, region, solutionKey, accountKey,
\* <MON><yy>
WellFormedTokens(tokens) ==
  /\ Len(tokens) = 6
  /\ \E d \in 0..MaxScore : tokens[2] = <<"N","P","S">> \o DecimalString(d)
  /\ Len(tokens[6]) >= 2
  /\ \A i \in (Len(tokens[6]) - 1)..Len(tokens[6]) : tokens[6][i] \in Digit

\* the name the claim gives to key under the table names
NameOrRaw(names, key) == IF key \in DOMAIN names THEN names[key] ELSE key

\* the record r decodes the well-formed tokens as the claim says
DecodesTokens(r, tokens) ==
  /\ "threw" \notin DOMAIN r
  /\ \A d \in 0..MaxScore :
       tokens[2] = <<"N","P","S">> \o DecimalString(d) => r.score = JsNumber(d)
  /\ r.region = tokens[3]
  /\ r.solution = NameOrRaw(SolutionNames, tokens[4])
  /\ r.accountType = NameOrRaw(AccountTypeNames, tokens[5])
  /\ LET mon == SubSeq(tokens[6], 1, Len(tokens[6]) - 2)
         yy == SubSeq(tokens[6], Len(tokens[6]) - 1, Len(tokens[6]))
     IN r.monthYear =
          <<"2","0">> \o yy \o <<"-">>
          \o (IF \E i \in 1..12 : MonthCodes[i] = mon
                THEN TwoDigits(CHOOSE i \in 1..12 : MonthCodes[i] = mon)
                ELSE <<"0","1">>)

\* C10: for every filename of exactly 6 tokens code_NPS<d>_region_
\* solutionKey_accountKey_<MON><yy>, with or without a trailing ".pdf" in any
\* letter case, both parsers return code = token 1, score = d, region =
\* token 3, solution and accountType = the mapped name of a known key and the
\* raw token of an unknown key, monthYear = "20" yy "-" and the number of MON,
\* "01" when MON is not one of the 12 codes.
C10_FilenameDecoded ==
  (pc = "done" /\ "filename" \in DOMAIN out /\ WellFormedTokens(input)) =>
    /\ DecodesTokens(out.report, input)
    /\ out.report.reportCode = input[1]
    /\ DecodesTokens(out.transcript, input)
    /\ out.transcript.transcriptCode = input[1]

(***************************************************************************)
(* Header fields: extractHeaderField of pdf-parser.ts and of               *)
(* transcript-parser.ts                                                    *)
(***************************************************************************)
\* new RegExp(`^${field}\\s+(.+?)$`, "m")
spacePattern(field) ==
  <<Bol>> \o Lit(field) \o <<Plus(WS), Open(1), LazyPlus(Dot), Close(1), Eol>>

\* new RegExp(`^${field}:\\s*(.+?)$`, "m")
colonPattern(field) ==
  <<Bol>> \o Lit(field) \o Lit(<<":">>)
  \o <<Star(WS), Open(1), LazyPlus(Dot), Close(1), Eol>>

\* match ? match[1].trim() : otherwise
groupOr(m, text, otherwise) ==
  IF m.ok THEN Trim(Group(m, text, 1)) ELSE otherwise

\* extractHeaderField of pdf-parser.ts
extractHeaderField(text, field) ==
  groupOr(Match(spacePattern(field), text), text, <<>>)

\* extractHeaderField of transcript-parser.ts
transcript_extractHeaderField(text, field) ==
  groupOr(Match(colonPattern(field), text), text,
          groupOr(Match(spacePattern(field), text), text, <<>>))

\* the fields parsePdfText and parseTranscriptPdfText ask for
ReportFields == {<<"C","l","i","e","n","t">>, <<"N","P","S">>, <<"E","n","g","a","g","e","m","e","n","t">>, <<"I","n","t","e","r","v","i","e","w"," ","D","a","t","e">>}
TranscriptFields == {<<"I","n","t","e","r","v","i","e","w"," ","D","a","t","e">>, <<"C","l","i","e","n","t">>, <<"P","r","o","j","e","c","t">>, <<"S","c","o","r","e">>}

(***************************************************************************)
(* Header blocks given to both extractors: at most MaxHeaderLines of       *)
(* these lines                                                             *)
(***************************************************************************)
MaxHeaderLines == 3

HeaderFragments ==
  {<<"C","l","i","e","n","t",":"," ","J","o","h","n"," ","S","m","i","t","h",","," ","A","c","m","e","\n">>,
   <<"C","l","i","e","n","t"," ","J","a","n","e"," ","D","o","e","\n">>,
   <<"E","n","g","a","g","e","m","e","n","t",":"," ","C","E","O"," ","S","e","a","r","c","h","\n">>,
   <<"E","n","g","a","g","e","m","e","n","t"," ","C","F","O"," ","S","e","a","r","c","h","\n">>,
   <<"P","r","o","j","e","c","t",":"," ","A","l","p","h","a","\n">>,
   <<"P","r","o","j","e","c","t"," ","B","e","t","a","\n">>,
   <<"I","n","t","e","r","v","i","e","w"," ","D","a","t","e"," ","0","2",".","0","9",".","2","5","\n">>,
   <<"S","c","o","r","e","\n">>,
   <<"F","U","L","L"," ","T","R","A","N","S","C","R","I","P","T","\n">>}

\* the header block grows by one line
HeadersAppend ==
  /\ pc = "build"
  /\ nfrag < MaxHeaderLines
  /\ \E f \in HeaderFragments : input' = input \o f
  /\ nfrag' = nfrag + 1
  /\ UNCHANGED <<pc, out>>

\* each parser extracts its header fields from the text
HeadersExtract ==
  /\ pc = "build"
  /\ out' = [report |-> [f \in ReportFields |-> extractHeaderField(input, f)],
             transcript |->
               [f \in TranscriptFields |-> transcript_extractHeaderField(input, f)]]
  /\ pc' = "done"
  /\ UNCHANGED <<input, nfrag>>

HeadersNext == HeadersAppend \/ HeadersExtract

SpecHeaders == Init /\ [][HeadersNext]_vars

(***************************************************************************)
(* Claims about header extraction (under SpecHeaders)                      *)
(***************************************************************************)
\* what follows prefix on a line that starts with it (empty otherwise)
ValueAfter(line, prefix) ==
  IF Len(line) > Len(prefix) /\ SubSeq(line, 1, Len(prefix)) = prefix
    THEN Trim(SubSeq(line, Len(prefix) + 1, Len(line)))
    ELSE <<>>

\* the value of the first of the lines that reads prefix plus a value
FirstValue(lines, prefix) ==
  LET hits == {i \in 1..Len(lines) : ValueAfter(lines[i], prefix) # <<>>}
  IN IF hits = {} THEN <<>> ELSE ValueAfter(lines[Least(hits)], prefix)

\* the value the claim gives to field: that of a line "field: value", else
\* that of a line "field value", else the empty string
HeaderValue(text, field) ==
  IF FirstValue(Split(text, <<"\n">>), field \o <<":"," ">>) # <<>>
    THEN FirstValue(Split(text, <<"\n">>), field \o <<":"," ">>)
    ELSE FirstValue(Split(text, <<"\n">>), field \o <<" ">>)

\* C9: both parsers' header extraction yields, for each field, the value of
\* a line "Field: value" when there is one, else the value of a line
\* "Field value", else the empty string.
C9_HeaderColonThenSpace ==
  (pc = "done" /\ "report" \in DOMAIN out) =>
    /\ \A f \in ReportFields : out.report[f] = HeaderValue(input, f)
    /\ \A f \in TranscriptFields : out.transcript[f] = HeaderValue(input, f)

(***************************************************************************)
(* transcript-parser.ts: extractTranscriptTurns                            *)
(* (cleanText of transcript-parser.ts is that of pdf-parser.ts, character  *)
(* for character)                                                          *)
(***************************************************************************)
\* /^(Interviewer|Speaker(?:\s+\d+)?)\s*(?:(\d{1,2}:\d{2})\s*)?$/gm
speakerPattern ==
  << Bol, Open(1),
     Alt(<< Lit(<<"I","n","t","e","r","v","i","e","w","e","r">>),
            Lit(<<"S","p","e","a","k","e","r">>) \o <<OptGroup(<<Plus(WS), Plus(Digit)>>)>> >>),
     Close(1), Star(WS),
     OptGroup(<<Open(2), Rep(Digit, 1, 2), Ch({":"}), Rep(Digit, 2, 2), Close(2),
                Star(WS)>>),
     Eol >>

\* the while loop over speakerPattern.exec(transcriptText): the matches from
\* lastIndex on
RECURSIVE speakerMatches(_, _), speakerMatchesAfter(_, _)
speakerMatches(transcriptText, lastIndex) ==
  speakerMatchesAfter(transcriptText,
                      Exec(speakerPattern, transcriptText, lastIndex))

\* matches.push({speaker, timestamp, index}) for the match m (null: the loop
\* ends); an undefined timestamp is the empty string here, both are falsy
speakerMatchesAfter(transcriptText, m) ==
  IF ~m.ok THEN <<>>
  ELSE <<[speaker |-> Group(m, transcriptText, 1),
          timestamp |-> Group(m, transcriptText, 2),
          index |-> m.start]>>
       \o speakerMatches(transcriptText, m.end)

\* if (turnText) turns.push({speaker: cleanSpeakerName(...), text: cleanText(turnText)})
pushTurn(currentMatch, turnText) ==
  IF turnText = <<>> THEN <<>>
  ELSE <<[speaker |-> Trim(IF currentMatch.timestamp # <<>>
                             THEN currentMatch.speaker \o <<" ">>
                                  \o currentMatch.timestamp
                             ELSE currentMatch.speaker),
          text |-> cleanText(turnText)]>>

\* the body of the for loop; newline is the offset of the first "\n" counted
\* from currentMatch.index, -1 when there is none (continue)
turnOf(transcriptText, currentMatch, newline, textEnd) ==
  IF newline = -1 THEN <<>>
  ELSE pushTurn(currentMatch,
                CollapseWS(Trim(Substring(transcriptText,
                                          currentMatch.index + newline + 1,
                                          textEnd))))

\* the for loop over matches, from i on
RECURSIVE turnsFrom(_, _, _)
turnsFrom(transcriptText, matches, i) ==
  IF i > Len(matches) THEN <<>>
  ELSE turnOf(transcriptText, matches[i],
              IndexOf(Substring(transcriptText, matches[i].index,
                                Len(transcriptText)), <<"\n">>),
              IF i < Len(matches) THEN matches[i + 1].index
                                  ELSE Len(transcriptText))
       \o turnsFrom(transcriptText, matches, i + 1)

\* extractTranscriptTurns once transcriptMatch = m is known
turnsAfter(text, m) ==
  IF ~m.ok THEN <<>>
  ELSE turnsFrom(Substring(text, m.end, Len(text)),
                 speakerMatches(Substring(text, m.end, Len(text)), 0), 1)

\* text.match(/FULL TRANSCRIPT\s*/i) and the rest
extractTranscriptTurns(text) ==
  turnsAfter(text, Match(LitI(<<"F","U","L","L"," ","T","R","A","N","S","C","R","I","P","T">>) \o <<Star(WS)>>, text))

(***************************************************************************)
(* Transcript texts given to extractTranscriptTurns: at most MaxTurnFrags  *)
(* of these fragments                                                      *)
(***************************************************************************)
MaxTurnFrags == 4

TurnFragments ==
  {<<"F","u","l","l"," ","T","r","a","n","s","c","r","i","p","t","\n">>,
   <<"I","n","t","e","r","v","i","e","w","e","r"," ","1",":","5","3","\n","H","e","l","l","o"," ","t","h","e","r","e",".","\n">>,
   <<"S","p","e","a","k","e","r"," ","1","\n">>,
   <<"S","p","e","a","k","e","r","\n">>,
   <<"1","2","\n">>,
   <<"LDQUO","H","i","RDQUO",","," "," ","t","h","a","n","k","s","HELLIP","\n">>}

\* the transcript text grows by one fragment
TurnsAppend ==
  /\ pc = "build"
  /\ nfrag < MaxTurnFrags
  /\ \E f \in TurnFragments : input' = input \o f
  /\ nfrag' = nfrag + 1
  /\ UNCHANGED <<pc, out>>

\* extractTranscriptTurns(input) is called
TurnsExtract ==
  /\ pc = "build"
  /\ out' = extractTranscriptTurns(input)
  /\ pc' = "done"
  /\ UNCHANGED <<input, nfrag>>

TurnsNext == TurnsAppend \/ TurnsExtract

SpecTurns == Init /\ [][TurnsNext]_vars

(***************************************************************************)
(* Claims about extractTranscriptTurns (under SpecTurns)                   *)
(***************************************************************************)
\* the offsets just past an occurrence of "FULL TRANSCRIPT" in any letter case
MarkerEnds(text) ==
  {i \in 15..Len(text) :
     \A j \in 1..15 : text[i - 15 + j] \in CaseSet(<<"F","U","L","L"," ","T","R","A","N","S","C","R","I","P","T">>[j])}

\* the lines of the text after the first marker (none without a marker)
LinesAfterMarker(text) ==
  IF MarkerEnds(text) = {} THEN <<>>
  ELSE Split(SubSeq(text, Least(MarkerEnds(text)) + 1, Len(text)), <<"\n">>)

IsLabel(s) ==
  \/ s = <<"I","n","t","e","r","v","i","e","w","e","r">>
  \/ s = <<"S","p","e","a","k","e","r">>
  \/ /\ Len(s) > 8
     /\ SubSeq(s, 1, 8) = <<"S","p","e","a","k","e","r"," ">>
     /\ \A i \in 9..Len(s) : s[i] \in Digit

\* m:ss or mm:ss
IsTimestamp(s) ==
  /\ Len(s) \in {4, 5}
  /\ s[Len(s) - 2] = ":"
  /\ \A i \in 1..Len(s) \ {Len(s) - 2} : s[i] \in Digit

\* the line consists solely of a label, optionally followed by a timestamp
IsBoundary(line) ==
  \/ IsLabel(line)
  \/ \E k \in 1..Len(line) :
       /\ line[k] = " "
       /\ IsLabel(SubSeq(line, 1, k - 1))
       /\ IsTimestamp(SubSeq(line, k + 1, Len(line)))

\* the turn of a boundary line and the text that follows it, if any
BoundaryTurn(speaker, following) ==
  IF speaker = <<>> \/ cleanText(following) = <<>> THEN <<>>
  ELSE <<[speaker |-> speaker, text |-> cleanText(following)]>>

\* one turn per boundary line with text, in the order of the lines from i on;
\* speaker is the last boundary line seen, following the lines after it
RECURSIVE TurnsOfLines(_, _, _, _)
TurnsOfLines(lines, i, speaker, following) ==
  IF i > Len(lines) THEN BoundaryTurn(speaker, following)
  ELSE IF IsBoundary(lines[i])
    THEN BoundaryTurn(speaker, following)
         \o TurnsOfLines(lines, i + 1, lines[i], <<>>)
    ELSE TurnsOfLines(lines, i + 1, speaker, following \o <<"\n">> \o lines[i])

\* C8: extractTranscriptTurns looks only at the text after the first
\* "FULL TRANSCRIPT" marker (any letter case); every line consisting solely of
\* a label ("Interviewer", "Speaker", "Speaker n"), optionally followed by a
\* mm:ss timestamp, is a turn boundary; the result lists in source order one
\* turn per boundary with non-empty following text, speaker = the label plus
\* " mm:ss" when a timestamp was present, text = the cleaned, whitespace-
\* collapsed text up to the next boundary line or the end, so that every
\* turn has non-empty text.
C8_TurnPerBoundaryLine ==
  pc = "done" =>
    /\ out = TurnsOfLines(LinesAfterMarker(input), 1, <<>>, <<>>)
    /\ \A i \in 1..Len(out) : out[i].text # <<>>

(***************************************************************************)
(* pdf-parser.ts: parsePdfText                                             *)
(***************************************************************************)
\* text.replace(pattern, r) with /g for a pattern that matches no empty
\* string: the text from offset from on, every match replaced
RECURSIVE ReplaceAll(_, _, _, _), ReplaceAllAfter(_, _, _, _, _)
ReplaceAll(text, pat, r, from) ==
  ReplaceAllAfter(text, pat, r, from, Exec(pat, text, from))

\* m is the next match at or after from (null: the rest stays as it is)
ReplaceAllAfter(text, pat, r, from, m) ==
  IF ~m.ok THEN Substring(text, from, Len(text))
  ELSE Substring(text, from, m.start) \o r \o ReplaceAll(text, pat, r, m.end)

\* text.split(/\s+/)
RECURSIVE SplitWS(_)
SplitWS(text) ==
  LET white == {i \in 1..Len(text) : text[i] \in WS}
  IN IF white = {} THEN <<text>>
     ELSE <<SubSeq(text, 1, Least(white) - 1)>>
          \o SplitWS(SubSeq(text,
                            Least(white) + RunLen(WS, text, Least(white), -1) + 1,
                            Len(text)))

\* padStart2 with a plausible slip: the part is used as it is
padStart2_unpadded(part) == part

\* part.padStart(2, "0")
padStart2(part) ==
  IF Len(part) >= 2 THEN part
  ELSE IF Len(part) = 1 THEN <<"0">> \o part ELSE <<"0","0">>

\* text.replace(/\n-- \d+ of \d+ --\n/g, "\n")
removePageBreaks(text) ==
  ReplaceAll(text,
             Lit(<<"\n","-","-"," ">>) \o <<Plus(Digit)>> \o Lit(<<" ","o","f"," ">>) \o <<Plus(Digit)>>
             \o Lit(<<" ","-","-","\n">>),
             <<"\n">>, 0)

\* /Customer Centricity:[\s\S]*?Interview Report\n(.+?)
\*  (?:\nNPS\s|\nEngagement\s|\nInterview Date\s)/
extractClientFromTitle(text) ==
  groupOr(Match(Lit(<<"C","u","s","t","o","m","e","r"," ","C","e","n","t","r","i","c","i","t","y",":">>) \o <<LazyRep(Alphabet, 0, -1)>>
                \o Lit(<<"I","n","t","e","r","v","i","e","w"," ","R","e","p","o","r","t","\n">>)
                \o <<Open(1), LazyPlus(Dot), Close(1),
                     Alt(<< Lit(<<"\n","N","P","S">>) \o <<Ch(WS)>>,
                            Lit(<<"\n","E","n","g","a","g","e","m","e","n","t">>) \o <<Ch(WS)>>,
                            Lit(<<"\n","I","n","t","e","r","v","i","e","w"," ","D","a","t","e">>) \o <<Ch(WS)>> >>)>>,
                text),
          text, <<>>)

\* deduplicateFirstName with a plausible slip: the words are joined without
\* the slice
deduplicateFirstName_unsliced(name) ==
  LET words == SplitWS(name)
  IN IF Len(words) >= 2 /\ words[1] = words[2]
       THEN Join(words, <<" ">>) ELSE name

deduplicateFirstName(name) ==
  LET words == SplitWS(name)
  IN IF Len(words) >= 2 /\ words[1] = words[2]
       THEN Join(Tail(words), <<" ">>) ELSE name

\* parseDateField of pdf-parser.ts
parseDateField(dateStr) ==
  LET parts == Split(dateStr, <<".">>)
  IN IF dateStr = <<>> THEN <<>>
     ELSE IF Len(parts) = 3
       THEN <<"2","0">> \o parts[3] \o <<"-">> \o padStart2(parts[2]) \o <<"-">>
            \o padStart2(parts[1])
       ELSE dateStr

\* clientName and company of parsePdfText for the client field
reportClient(clientField) ==
  LET commaIdx == IndexOf(clientField, <<",">>)
  IN IF commaIdx # -1
       THEN [client |->
               deduplicateFirstName(Trim(Substring(clientField, 0, commaIdx))),
             company |->
               Trim(Substring(clientField, commaIdx + 1, Len(clientField)))]
       ELSE [client |-> deduplicateFirstName(clientField), company |-> <<>>]

\* if (!clientField) clientField = fallback
orElse(clientField, fallback) ==
  IF clientField = <<>> THEN fallback ELSE clientField

\* reportScore with a plausible slip: the header value is parsed whether it
\* is there or not
reportScore_alwaysParsed(npsField) == parseInt(npsField)

\* npsField ? parseInt(npsField, 10) : null
reportScore(npsField) ==
  IF npsField # <<>> THEN parseInt(npsField) ELSE Null

\* the object parsePdfText returns
reportRecord(client, engagement, interviewDate, score, sections) ==
  [client |-> client.client,
   company |-> client.company,
   engagement |-> engagement,
   interviewDate |-> interviewDate,
   score |-> score,
   overview |-> sections.overview,
   whatWentWell |-> sections.whatWentWell,
   challengesPainPoints |-> sections.challengesPainPoints,
   gapsIdentified |-> sections.gapsIdentified,
   keyThemes |-> sections.keyThemes,
   actionsRecommendations |-> sections.actionsRecommendations,
   additionalInsight |-> sections.additionalInsight]

\* parsePdfText after the page break markers are removed
reportOf(cleaned) ==
  reportRecord(reportClient(orElse(extractHeaderField(cleaned, <<"C","l","i","e","n","t">>),
                                   extractClientFromTitle(cleaned))),
               extractHeaderField(cleaned, <<"E","n","g","a","g","e","m","e","n","t">>),
               parseDateField(extractHeaderField(cleaned, <<"I","n","t","e","r","v","i","e","w"," ","D","a","t","e">>)),
               reportScore(extractHeaderField(cleaned, <<"N","P","S">>)),
               extractSections(cleaned))

parsePdfText(text) == reportOf(removePageBreaks(text))

(***************************************************************************)
(* transcript-parser.ts: parseTranscriptPdfText                            *)
(***************************************************************************)
\* parseClientField with a plausible slip: the rule of parsePdfText, where
\* the company is all that follows the first comma
parseClientField_firstComma(clientField) ==
  LET commaIdx == IndexOf(clientField, <<",">>)
  IN IF commaIdx # -1
       THEN [clientName |-> Trim(Substring(clientField, 0, commaIdx)),
             clientTitle |-> <<>>,
             company |-> Trim(Substring(clientField, commaIdx + 1, Len(clientField)))]
       ELSE [clientName |-> clientField, clientTitle |-> <<>>, company |-> <<>>]

\* clientField.split(",").map((p) => p.trim()) and the three cases
parseClientField(clientField) ==
  LET raw == Split(clientField, <<",">>)
      parts == [i \in 1..Len(raw) |-> Trim(raw[i])]
  IN IF Len(parts) >= 3
       THEN [clientName |-> parts[1],
             clientTitle |-> Join(SubSeq(parts, 2, Len(parts) - 1), <<","," ">>),
             company |-> parts[Len(parts)]]
     ELSE IF Len(parts) = 2
       THEN [clientName |-> parts[1], clientTitle |-> <<>>,
             company |-> parts[2]]
     ELSE [clientName |-> clientField, clientTitle |-> <<>>,
           company |-> <<>>]

\* parseDateField of transcript-parser.ts
transcript_parseDateField(dateStr) ==
  LET parts == Split(dateStr, <<".">>)
  IN IF dateStr = <<>> THEN <<>>
     ELSE IF Len(parts) = 3
       THEN (IF Len(parts[3]) = 2 THEN <<"2","0">> \o parts[3] ELSE parts[3])
            \o <<"-">> \o padStart2(parts[2]) \o <<"-">> \o padStart2(parts[1])
       ELSE dateStr

\* number || 0
orZero(number) ==
  IF number.kind = "NaN" \/ number.n = 0 THEN JsNumber(0) ELSE number

\* fullTranscript.map((t) => `${t.speaker}: ${t.text}`).join("\n\n")
rawTextOf(fullTranscript) ==
  Join([i \in 1..Len(fullTranscript) |->
          fullTranscript[i].speaker \o <<":"," ">> \o fullTranscript[i].text],
       <<"\n","\n">>)

\* the object parseTranscriptPdfText returns
transcriptRecord(clientField, client, project, interviewDate, score, turns) ==
  [client |-> clientField,
   clientName |-> client.clientName,
   clientTitle |-> client.clientTitle,
   company |-> client.company,
   project |-> project,
   interviewDate |-> interviewDate,
   score |-> score,
   fullTranscript |-> turns,
   rawText |-> rawTextOf(turns)]

parseTranscriptPdfText(text) ==
  transcriptRecord(
    transcript_extractHeaderField(text, <<"C","l","i","e","n","t">>),
    parseClientField(transcript_extractHeaderField(text, <<"C","l","i","e","n","t">>)),
    transcript_extractHeaderField(text, <<"P","r","o","j","e","c","t">>),
    transcript_parseDateField(transcript_extractHeaderField(text, <<"I","n","t","e","r","v","i","e","w"," ","D","a","t","e">>)),
    orZero(parseInt(transcript_extractHeaderField(text, <<"S","c","o","r","e">>))),
    extractTranscriptTurns(text))

(***************************************************************************)
(* Document texts given to parsePdfText and parseTranscriptPdfText: at     *)
(* most MaxDocFrags of these fragments                                     *)
(***************************************************************************)
MaxDocFrags == 3

DocFragments ==
  {<<"C","u","s","t","o","m","e","r"," ","C","e","n","t","r","i","c","i","t","y",":"," ","N","P","S"," ","I","n","t","e","r","v","i","e","w"," ","R","e","p","o","r","t","\n","J","a","n","e"," ","J","a","n","e"," ","D","o","e",","," ","I","n","i","t","e","c","h","\n","E","n","g","a","g","e","m","e","n","t"," ","C","F","O"," ","S","e","a","r","c","h","\n">>,
   <<"C","l","i","e","n","t"," ","J","o","h","n"," ","S","m","i","t","h",","," ","A","c","m","e","\n","N","P","S"," ","9","\n">>,
   <<"\n","-","-"," ","1"," ","o","f"," ","2"," ","-","-","\n">>,
   <<"O","v","e","r","v","i","e","w","\n","A","l","l"," ","f","i","n","e",".","\n","K","e","y"," ","T","h","e","m","e","s","\n","S","t","r","o","n","g"," ","w","o","r","k","."," ","o","k","."," ","i","t"," ","w","e","n","t"," ","w","e","l","l",".","\n">>,
   <<"I","n","t","e","r","v","i","e","w"," ","D","a","t","e"," ","0","2",".","0","9",".","2","5","\n","P","r","o","j","e","c","t"," ","B","e","t","a","\n">>,
   <<"F","U","L","L"," ","T","R","A","N","S","C","R","I","P","T","\n","I","n","t","e","r","v","i","e","w","e","r"," ","1",":","5","3","\n","H","e","l","l","o"," ","t","h","e","r","e",".","\n">>,
   <<"S","o","m","e"," ","n","o","t","e","s",".","\n">>}

\* the document text grows by one fragment
DocAppend ==
  /\ pc = "build"
  /\ nfrag < MaxDocFrags
  /\ \E f \in DocFragments : input' = input \o f
  /\ nfrag' = nfrag + 1
  /\ UNCHANGED <<pc, out>>

\* both assemblers are called with the text
DocParse ==
  /\ pc = "build"
  /\ out' = [report |-> parsePdfText(input),
             transcript |-> parseTranscriptPdfText(input)]
  /\ pc' = "done"
  /\ UNCHANGED <<input, nfrag>>

DocNext == DocAppend \/ DocParse

SpecDocument == Init /\ [][DocNext]_vars

(***************************************************************************)
(* Claims about the two assemblers (under SpecDocument)                    *)
(***************************************************************************)
\* word occurs in text, in any letter case
ContainsI(text, word) ==
  \E i \in 0..(Len(text) - Len(word)) :
    \A j \in 1..Len(word) : text[i + j] \in CaseSet(word[j])

\* a line of text starts with label
LineStarts(text, label) ==
  \E i \in 0..(Len(text) - Len(label)) :
    /\ i = 0 \/ text[i] = "\n"
    /\ SubSeq(text, i + 1, i + Len(label)) = label

\* a word every heading of the section has
SectionHeadingWord ==
  [k \in SectionKeys |->
     CASE k = "overview" -> <<"O","v","e","r","v","i","e","w">>
       [] k = "whatWentWell" -> <<"W","h","a","t"," ","W","e","n","t"," ","W","e","l","l">>
       [] k = "challengesPainPoints" -> <<"C","h","a","l","l","e","n","g","e","s">>
       [] k = "gapsIdentified" -> <<"G","a","p","s"," ","I","d","e","n","t","i","f","i","e","d">>
       [] k = "keyThemes" -> <<"K","e","y"," ","T","h","e","m","e","s">>
       [] k = "actionsRecommendations" -> <<"R","e","c","o","m","m","e","n","d","a","t","i","o","n","s">>
       [] k = "additionalInsight" -> <<"A","d","d","i","t","i","o","n","a","l"," ","I","n","s","i","g","h","t">>]

\* Both results are records with all their fields, and every field whose
\* label, heading or marker is absent from the text has its default; the
\* report's client and company have theirs when clientAbsent holds.
ReturnsDefaults(text, report, transcript, clientAbsent) ==
  /\ DOMAIN report =
       {"client", "company", "engagement", "interviewDate", "score"}
       \cup SectionKeys
  /\ DOMAIN transcript =
       {"client", "clientName", "clientTitle", "company", "project",
        "interviewDate", "score", "fullTranscript", "rawText"}
  /\ clientAbsent => report.client = <<>> /\ report.company = <<>>
  /\ ~LineStarts(text, <<"E","n","g","a","g","e","m","e","n","t">>) => report.engagement = <<>>
  /\ ~LineStarts(text, <<"I","n","t","e","r","v","i","e","w"," ","D","a","t","e">>) =>
       report.interviewDate = <<>> /\ transcript.interviewDate = <<>>
  /\ ~LineStarts(text, <<"N","P","S">>) => report.score = Null
  /\ \A k \in SectionKeys :
       ~ContainsI(text, SectionHeadingWord[k]) => report[k] = <<>>
  /\ ~LineStarts(text, <<"C","l","i","e","n","t">>) =>
       /\ transcript.client = <<>>
       /\ transcript.clientName = <<>>
       /\ transcript.clientTitle = <<>>
       /\ transcript.company = <<>>
  /\ ~LineStarts(text, <<"P","r","o","j","e","c","t">>) => transcript.project = <<>>
  /\ ~ContainsI(text, <<"F","U","L","L"," ","T","R","A","N","S","C","R","I","P","T">>) =>
       transcript.fullTranscript = <<>> /\ transcript.rawText = <<>>

C11_FewTokensThrow ==
  (pc = "done" /\ "filename" \in DOMAIN out /\ Len(input) < 6) =>
    /\ out.report = TypeError
    /\ out.transcript = TypeError

\* both parsers were called with a filename of 5 tokens and threw
C11_Witness ==
  /\ pc = "done"
  /\ "filename" \in DOMAIN out
  /\ Len(input) = 5
  /\ Len(Split(out.filename, <<"_">>)) = 5
  /\ out.report = TypeError
  /\ out.transcript = TypeError

\* s has the shape YYYY-MM with a month between 01 and 12
IsYearMonth(s) ==
  /\ Len(s) = 7
  /\ \A i \in {1, 2, 3, 4, 6, 7} : s[i] \in Digit
  /\ s[5] = "-"
  /\ \E m \in 1..12 : SubSeq(s, 6, 7) = TwoDigits(m)

\* C12: whenever a parser returns a record (a filename of at least 6 tokens,
\* whatever the 6th token is), its monthYear has the shape YYYY-MM with a
\* month between 01 and 12.
C12_MonthYearShape ==
  (pc = "done" /\ "filename" \in DOMAIN out) =>
    /\ "monthYear" \in DOMAIN out.report => IsYearMonth(out.report.monthYear)
    /\ "monthYear" \in DOMAIN out.transcript =>
         IsYearMonth(out.transcript.monthYear)

(***************************************************************************)
(* Actions shared by the specifications of the single functions: the       *)
(* argument grows by one fragment, at most bound times; the function is    *)
(* called and returns value                                                *)
(***************************************************************************)
Grow(fragments, bound) ==
  /\ pc = "build"
  /\ nfrag < bound
  /\ \E f \in fragments : input' = input \o f
  /\ nfrag' = nfrag + 1
  /\ UNCHANGED <<pc, out>>

Return(value) ==
  /\ pc = "build"
  /\ out' = value
  /\ pc' = "done"
  /\ UNCHANGED <<input, nfrag>>

(***************************************************************************)
(* Raw dates given to both parseDateField functions, and to both           *)
(* assemblers as the value of the "Interview Date" header line             *)
(***************************************************************************)
MaxDateFrags == 3

\* what the normalizers and the assemblers make of the raw date dateRaw
datesOf(dateRaw) ==
  [raw |-> [report |-> parseDateField(dateRaw),
            transcript |-> transcript_parseDateField(dateRaw)],
   doc |-> [report |->
              parsePdfText(<<"I","n","t","e","r","v","i","e","w"," ","D","a","t","e"," ">> \o dateRaw \o <<"\n">>).interviewDate,
            transcript |->
              parseTranscriptPdfText(<<"I","n","t","e","r","v","i","e","w"," ","D","a","t","e"," ">> \o dateRaw
                                     \o <<"\n">>).interviewDate]]

SpecDates ==
  Init /\ [][\/ Grow({<<"2",".">>, <<"1","8",".">>, <<"0","9",".">>, <<"2","5">>, <<"2","0","2","5">>, <<"x">>, <<".">>}, MaxDateFrags)
             \/ Return(datesOf(input))]_vars

(***************************************************************************)
(* Claims about the dates (under SpecDates)                                *)
(***************************************************************************)
\* the offsets of the dots of s
Dots(s) == {i \in 1..Len(s) : s[i] = "."}

\* one or two digits
IsDayOrMonth(s) == Len(s) \in {1, 2} /\ \A i \in 1..Len(s) : s[i] \in Digit

\* s with a "0" before it when it is a single character
ZeroPadded(s) == IF Len(s) = 1 THEN <<"0">> \o s ELSE s

\* the normalizer result r is what the claim gives for the raw date s
NormalizedAsClaimed(s, r) ==
  /\ s = <<>> => r = <<>>
  /\ (s # <<>> /\ Cardinality(Dots(s)) # 2) => r = s
  /\ Cardinality(Dots(s)) = 2 =>
       LET day == SubSeq(s, 1, Least(Dots(s)) - 1)
           month == SubSeq(s, Least(Dots(s)) + 1, Greatest(Dots(s)) - 1)
           year == SubSeq(s, Greatest(Dots(s)) + 1, Len(s))
       IN (/\ IsDayOrMonth(day)
           /\ IsDayOrMonth(month)
           /\ Len(year) = 2
           /\ \A i \in 1..2 : year[i] \in Digit)
          => r = <<"2","0">> \o year \o <<"-">> \o ZeroPadded(month) \o <<"-">>
                 \o ZeroPadded(day)

\* C13: for a raw date D.M.YY (day and month of one or two digits, year of
\* two) both normalizers return 20YY-MM-DD with day and month padded to two
\* digits; a non-empty string that does not split into exactly three
\* dot-separated parts is returned unchanged; the empty string gives the
\* empty string.
C13_DateNormalized ==
  (pc = "done" /\ "raw" \in DOMAIN out) =>
    /\ NormalizedAsClaimed(input, out.raw.report)
    /\ NormalizedAsClaimed(input, out.raw.transcript)

\* "2.09.25" was normalized, its day padded
C13_Witness ==
  /\ pc = "done"
  /\ "raw" \in DOMAIN out
  /\ input = <<"2",".","0","9",".","2","5">>
  /\ out.raw.report = <<"2","0","2","5","-","0","9","-","0","2">>
  /\ out.raw.transcript = <<"2","0","2","5","-","0","9","-","0","2">>

\* s has the shape YYYY-MM-DD
IsIsoDate(s) ==
  /\ Len(s) = 10
  /\ \A i \in {1, 2, 3, 4, 6, 7, 9, 10} : s[i] \in Digit
  /\ s[5] = "-"
  /\ s[8] = "-"

\* C14: the interviewDate either assembler returns is the empty string or a
\* string of the shape YYYY-MM-DD, never a partially formatted date.
C14_InterviewDateShape ==
  (pc = "done" /\ "doc" \in DOMAIN out) =>
    /\ out.doc.report = <<>> \/ IsIsoDate(out.doc.report)
    /\ out.doc.transcript = <<>> \/ IsIsoDate(out.doc.transcript)

(***************************************************************************)
(* cleanText on its own: the text is cleaned once, and the result again    *)
(***************************************************************************)
MaxCleanFrags == 3

SpecClean ==
  Init /\ [][\/ Grow({<<"a"," ">>, <<"\n","\t">>, <<"b">>, <<"LDQUO","c","RDQUO">>, <<"LSQUO","d","RSQUO">>, <<"HELLIP">>, <<"NDASH">>, <<"MDASH">>}, MaxCleanFrags)
             \/ Return([once |-> cleanText(input),
                        twice |-> cleanText(cleanText(input))])]_vars

(***************************************************************************)
(* Claims about cleanText (under SpecClean)                                *)
(***************************************************************************)
\* C15: text cleanup is idempotent: cleanText(cleanText(x)) = cleanText(x)
\* for every string x (the cleanText of the report parser and that of the
\* transcript parser are the same function).
C15_CleanIdempotent ==
  (pc = "done" /\ "once" \in DOMAIN out) => out.twice = out.once

\* a text with a whitespace run and curly quotes was changed by the first
\* cleanup and left alone by the second
C15_Witness ==
  /\ pc = "done"
  /\ "once" \in DOMAIN out
  /\ input = <<"a"," ","\n","\t","LDQUO","c","RDQUO">>
  /\ out.once = <<"a"," ","\"","c","\"">>
  /\ out.twice = out.once

\* C16: cleanText(x) has no leading or trailing whitespace, no run of two or
\* more whitespace characters, and none of the typographic characters the
\* cleanup maps to ASCII: curly double quotes, curly apostrophes, the
\* ellipsis, and the en and em dashes.
C16_CleanOutputShape ==
  (pc = "done" /\ "once" \in DOMAIN out) =>
    /\ out.once # <<>> => (out.once[1] \notin WS /\ out.once[Len(out.once)] \notin WS)
    /\ \A i \in 1..(Len(out.once) - 1) :
         ~(out.once[i] \in WS /\ out.once[i + 1] \in WS)
    /\ \A i \in 1..Len(out.once) :
         out.once[i] \notin {"LDQUO", "RDQUO", "LSQUO", "RSQUO", "HELLIP", "NDASH", "MDASH"}

(***************************************************************************)
(* Client fields given to both assemblers as the value of the "Client"     *)
(* header line; the client name parsePdfText returns is given to           *)
(* deduplicateFirstName once more                                          *)
(***************************************************************************)
MaxClientFrags == 4

SpecClient ==
  Init /\ [][\/ Grow({<<"M","i","k","e"," ">>, <<"A","r","s","h","i","n","s","k","i","y">>, <<","," ","C","F","O">>, <<","," ","A","c","m","e">>, <<",">>, <<" "," ">>}, MaxClientFrags)
             \/ Return([report |-> parsePdfText(<<"C","l","i","e","n","t"," ">> \o input \o <<"\n">>),
                        transcript |-> parseTranscriptPdfText(<<"C","l","i","e","n","t"," ">> \o input \o <<"\n">>),
                        again |-> deduplicateFirstName(
                                    parsePdfText(<<"C","l","i","e","n","t"," ">> \o input \o <<"\n">>).client)])]_vars

(***************************************************************************)
(* Claims about the client field (under SpecClient)                        *)
(***************************************************************************)
\* the offsets of the commas of s
Commas(s) == {i \in 1..Len(s) : s[i] = ","}

\* the part of the client field s before its first comma, trimmed (all of s
\* when it has no comma)
FirstPart(s) ==
  IF Commas(s) = {} THEN s ELSE Trim(SubSeq(s, 1, Least(Commas(s)) - 1))

\* the part of the client field s after its last comma, trimmed
LastPart(s) == Trim(SubSeq(s, Greatest(Commas(s)) + 1, Len(s)))

\* the parts of s between its first and its last comma, trimmed
MiddleParts(s) ==
  LET raw == Split(SubSeq(s, Least(Commas(s)) + 1, Greatest(Commas(s)) - 1), <<",">>)
  IN [i \in 1..Len(raw) |-> Trim(raw[i])]

\* result is what the claim gives for the name: without its first token
\* when its first two tokens are identical, the name itself otherwise
DedupedAsClaimed(name, words, result) ==
  IF Len(words) >= 2 /\ words[1] = words[2]
    THEN SplitWS(result) = Tail(words)
    ELSE result = name

\* C17: when the first two whitespace-separated tokens of a name are
\* identical, deduplicateFirstName returns the name without the first of
\* them ('X X Y' gives 'X Y'), otherwise the name unchanged; parsePdfText
\* applies it to the client name after the comma split, so the client it
\* returns for a header name 'X X Y' is 'X Y'.
C17_FirstNameDeduplicated ==
  (pc = "done" /\ "again" \in DOMAIN out) =>
    DedupedAsClaimed(FirstPart(Trim(input)), SplitWS(FirstPart(Trim(input))),
                     out.report.client)

\* the header name "Mike Mike Arshinskiy" before a company came out as
\* "Mike Arshinskiy"
C17_Witness ==
  /\ pc = "done"
  /\ "again" \in DOMAIN out
  /\ input = <<"M","i","k","e"," ","M","i","k","e"," ","A","r","s","h","i","n","s","k","i","y",","," ","A","c","m","e">>
  /\ out.report.client = <<"M","i","k","e"," ","A","r","s","h","i","n","s","k","i","y">>

\* C18: name deduplication is idempotent: for every name n,
\* deduplicateFirstName(deduplicateFirstName(n)) = deduplicateFirstName(n).
C18_DedupeIdempotent ==
  (pc = "done" /\ "again" \in DOMAIN out) => out.again = out.report.client

\* the transcript's client record is what the claim gives for the field
DecomposedAsClaimed(field, client) ==
  /\ Cardinality(Commas(field)) >= 2 =>
       /\ client.clientName = FirstPart(field)
       /\ client.company = LastPart(field)
       /\ client.clientTitle = Join(MiddleParts(field), <<","," ">>)
  /\ Cardinality(Commas(field)) = 1 =>
       /\ client.clientName = FirstPart(field)
       /\ client.company = LastPart(field)
       /\ client.clientTitle = <<>>
  /\ Commas(field) = {} =>
       /\ client.clientName = field
       /\ client.company = <<>>
       /\ client.clientTitle = <<>>

\* C19: parseTranscriptPdfText decomposes the client field on commas, each
\* part trimmed: three or more parts give clientName = first part, company =
\* last part, clientTitle = the middle parts joined with ", "; two parts give
\* clientName = first, company = second, clientTitle empty; a single part
\* gives clientName only.
C19_TranscriptClientDecomposed ==
  (pc = "done" /\ "again" \in DOMAIN out) =>
    /\ out.transcript.client = Trim(input)
    /\ DecomposedAsClaimed(out.transcript.client, out.transcript)

\* a field of four parts: the two middle parts make the title
C19_Witness ==
  /\ pc = "done"
  /\ "again" \in DOMAIN out
  /\ input = <<"A","r","s","h","i","n","s","k","i","y",","," ","C","F","O",","," ","C","F","O",","," ","A","c","m","e">>
  /\ out.transcript.clientName = <<"A","r","s","h","i","n","s","k","i","y">>
  /\ out.transcript.clientTitle = <<"C","F","O",","," ","C","F","O">>
  /\ out.transcript.company = <<"A","c","m","e">>

\* C20: parsePdfText decomposes the report's client field by the same comma
\* rule: with three or more comma-separated parts, client is the first part
\* (deduplicated) and company is the last part alone, without the middle
\* parts.
C20_ReportCompanyLastPart ==
  (pc = "done" /\ "again" \in DOMAIN out /\ Cardinality(Commas(Trim(input))) >= 2) =>
    /\ DedupedAsClaimed(FirstPart(Trim(input)), SplitWS(FirstPart(Trim(input))),
                        out.report.client)
    /\ out.report.company = LastPart(Trim(input))

(***************************************************************************)
(* Report texts with an NPS header line and page-break markers, given to   *)
(* parsePdfText                                                            *)
(***************************************************************************)
MaxReportFrags == 4

SpecReportText ==
  Init /\ [][\/ Grow({<<"N","P","S"," ">>, <<"9","\n">>, <<"n","/","a","\n">>, <<"\n","O","v","e","r","v","i","e","w","\n","A","l","l"," ","w","e","n","t"," ","f","i","n","e",".">>, <<"\n","-","-"," ","1"," ","o","f"," ","2"," ","-","-">>, <<"\n">>}, MaxReportFrags)
             \/ Return(parsePdfText(input))]_vars

(***************************************************************************)
(* Claims about the report record (under SpecReportText)                   *)
(***************************************************************************)
\* C21: the score of the record parsePdfText returns is either null or an
\* integer: null when the text has no NPS header field, the integer value of
\* the field otherwise; never a non-integer value such as NaN.
C21_ScoreNullOrInteger ==
  (pc = "done" /\ "overview" \in DOMAIN out) =>
    /\ out.score.kind \in {"null", "number"}
    /\ ~LineStarts(input, <<"N","P","S">>) => out.score = Null

\* s holds a page-break marker "-- N of M --"
HasPageBreak(s) ==
  Match(Lit(<<"-","-"," ">>) \o <<Plus(Digit)>> \o Lit(<<" ","o","f"," ">>) \o <<Plus(Digit)>> \o Lit(<<" ","-","-">>), s).ok

\* C22: parsePdfText strips every page-break marker line "-- N of M --"
\* before header extraction and segmentation, wherever the marker stands and
\* however many markers follow one another: no overview, bullet or
\* additionalInsight of the result contains a marker.
C22_NoPageBreakLeft ==
  (pc = "done" /\ "overview" \in DOMAIN out) =>
    /\ ~HasPageBreak(out.overview)
    /\ ~HasPageBreak(out.additionalInsight)
    /\ \A k \in {"whatWentWell", "challengesPainPoints", "gapsIdentified", "keyThemes", "actionsRecommendations"} :
         \A i \in 1..Len(out[k]) : ~HasPageBreak(out[k][i])

(***************************************************************************)
(* A further claim about splitBulletPoints (under SpecBullets)             *)
(***************************************************************************)
\* m is a match of the heading lead-in shape whose first word is not on the
\* stoplist
AcceptedLeadIn(joined, m) ==
  m.ok /\ firstWord(Group(m, joined, 1)) \notin NON_HEADING_STARTERS

\* the offsets p > 0 of joined where a phrase of the heading lead-in shape
\* starts, after sentence-ending punctuation or a quote and a space, its
\* first word not on the stoplist
LeadIns(joined) ==
  {p \in 2..Len(joined) :
     /\ joined[p - 1] \in {".", "\"", "RDQUO", "LDQUO"}
     /\ joined[p] \in WS
     /\ AcceptedLeadIn(joined, MatchAt(Tail(headingPattern), joined, p))}

\* the split offsets of the loop over headingPattern.exec
SplitPoints(joined) ==
  {headingSplits(joined, 0, <<0>>)[i] :
     i \in 1..Len(headingSplits(joined, 0, <<0>>))}

\* C27: every phrase of the heading lead-in shape that follows sentence-ending
\* punctuation (or a quote) and a space, and whose first word is not on the
\* stoplist, becomes a split point, also when the sentence right before it
\* was itself matched as a candidate: an earlier match never hides the
\* lead-in that directly follows it.
C27_EveryLeadInSplits ==
  pc = "done" => LeadIns(flatten(input)) \subseteq SplitPoints(flatten(input))

(***************************************************************************)
(* A further claim about the dates (under SpecDates)                       *)
(***************************************************************************)
\* the raw date s is D.M.YYYY and r is YYYY-MM-DD made of its parts
FourDigitYearKept(s, r) ==
  (/\ Cardinality(Dots(s)) = 2
   /\ IsDayOrMonth(SubSeq(s, 1, Least(Dots(s)) - 1))
   /\ IsDayOrMonth(SubSeq(s, Least(Dots(s)) + 1, Greatest(Dots(s)) - 1))
   /\ Len(s) - Greatest(Dots(s)) = 4
   /\ \A i \in (Greatest(Dots(s)) + 1)..Len(s) : s[i] \in Digit)
  => r = SubSeq(s, Greatest(Dots(s)) + 1, Len(s)) \o <<"-">>
         \o ZeroPadded(SubSeq(s, Least(Dots(s)) + 1, Greatest(Dots(s)) - 1))
         \o <<"-">> \o ZeroPadded(SubSeq(s, 1, Least(Dots(s)) - 1))

\* C28: the date normalizer of the report parser and that of the transcript
\* parser return the same string for every raw date; for D.M.YYYY with a
\* four-digit year both return YYYY-MM-DD with the year unchanged.
C28_NormalizersAgree ==
  (pc = "done" /\ "raw" \in DOMAIN out) =>
    /\ out.raw.report = out.raw.transcript
    /\ FourDigitYearKept(input, out.raw.report)
    /\ FourDigitYearKept(input, out.raw.transcript)

(***************************************************************************)
(* A further claim about extractTranscriptTurns (under SpecTurns)          *)
(***************************************************************************)
\* speaker is one of the lines, its whitespace trimmed and collapsed
IsLineOf(lines, speaker) ==
  \E j \in 1..Len(lines) : CollapseWS(Trim(lines[j])) = speaker

\* C29: every speaker returned by extractTranscriptTurns is a single-line
\* label: "Interviewer", "Speaker" or "Speaker n", optionally followed by one
\* space and an mm:ss timestamp; it holds no line break, and the digits or
\* the timestamp of the label come from the marker line only (they do not
\* also start the text of the turn).
C29_SpeakerSingleLine ==
  pc = "done" =>
    \A i \in 1..Len(out) :
      /\ "\n" \notin {out[i].speaker[k] : k \in 1..Len(out[i].speaker)}
      /\ IsBoundary(out[i].speaker)
      /\ IsLineOf(LinesAfterMarker(input), out[i].speaker)

(***************************************************************************)
(* Several parser calls in progress at once.  out is the list of the calls *)
(* made so far; a call holds its argument, the string its /g pattern runs  *)
(* on, the lastIndex of the RegExp object its literal created, what its    *)
(* loop has collected, and its result once it has returned.  The steps of  *)
(* one call are taken in order, those of different calls in any order.     *)
(***************************************************************************)
MaxCalls == 2

\* regexOf with a plausible slip: the pattern is hoisted out of the function,
\* so every call of a function uses the RegExp object of its first call
regexOf_hoisted(calls, c) ==
  Least({d \in 1..Len(calls) : calls[d].fn = calls[c].fn})

\* the RegExp object the call c runs: headingPattern and speakerPattern are
\* literals inside the function body, each call creates its own
regexOf(calls, c) == c

\* one turn of the call's loop, m being what exec returned from lastIndex
\* (null: the loop ends, lastIndex is reset and the function returns); the
\* filename parsers have no loop and return at once
stepOf(call, m) ==
  CASE call.fn = "splitBulletPoints" ->
         IF ~m.ok
           THEN [call EXCEPT !.lastIndex = 0, !.done = TRUE,
                             !.ret = pointsOrWhole(call.subject,
                                       bulletChunks(call.subject, call.acc, 1))]
           ELSE [call EXCEPT !.lastIndex = m.end,
                             !.acc = IF \/ firstWord(Group(m, call.subject, 1))
                                            \in NON_HEADING_STARTERS
                                         \/ headingStartOf(call.subject, m) = 0
                                       THEN call.acc
                                       ELSE Append(call.acc,
                                                   headingStartOf(call.subject, m))]
    [] call.fn = "extractTranscriptTurns" ->
         IF ~m.ok
           THEN [call EXCEPT !.lastIndex = 0, !.done = TRUE,
                             !.ret = turnsFrom(call.subject, call.acc, 1)]
           ELSE [call EXCEPT !.lastIndex = m.end,
                             !.acc = Append(call.acc,
                                            [speaker |-> Group(m, call.subject, 1),
                                             timestamp |-> Group(m, call.subject, 2),
                                             index |-> m.start])]
    [] call.fn = "parseFilenameMetadata" ->
         [call EXCEPT !.done = TRUE, !.ret = parseFilenameMetadata(call.text)]
    [] OTHER ->
         [call EXCEPT !.done = TRUE, !.ret = parseTranscriptFilename(call.text)]

\* a parser is called with a text: the statements before its loop
Call ==
  /\ Len(out) < MaxCalls
  /\ \E fn \in {"splitBulletPoints", "extractTranscriptTurns",
                "parseFilenameMetadata", "parseTranscriptFilename"} :
       \E text \in
           CASE fn = "splitBulletPoints" ->
                  {<<"H","i","."," ","S","t","r","o","n","g"," ","w","o","r","k","."," ","o","k","."," ","S","t","r","o","n","g"," ","w","o","r","k","."," ","o","k","."," ">>, <<"T","h","e","y"," ","s","a","i","d"," ","s","o","."," ","S","t","r","o","n","g"," ","w","o","r","k","."," ","o","k","."," ">>}
             [] fn = "extractTranscriptTurns" ->
                  {<<"F","U","L","L"," ","T","R","A","N","S","C","R","I","P","T","\n","I","n","t","e","r","v","i","e","w","e","r"," ","1",":","5","3","\n","H","e","l","l","o"," ","t","h","e","r","e",".","\n","S","p","e","a","k","e","r"," ","1","\n","F","i","n","e",","," ","t","h","a","n","k","s",".","\n">>,
                   <<"F","u","l","l"," ","T","r","a","n","s","c","r","i","p","t","\n","S","p","e","a","k","e","r","\n","1","2","\n","H","e","l","l","o",".","\n">>}
             [] OTHER -> {<<"T","1","_","N","P","S","9","_","E","M","E","A","_","E","S","_","H","O","U","S","E","_","S","E","P","2","5",".","p","d","f">>, <<"R","2","_","N","P","S","6","_","N","A","_","P","S",".","p","d","f">>} :
         out' = Append(out,
                  [fn |-> fn, text |-> text,
                   subject |->
                     CASE fn = "splitBulletPoints" -> flatten(text)
                       [] fn = "extractTranscriptTurns" ->
                            Substring(text,
                                      Match(LitI(<<"F","U","L","L"," ","T","R","A","N","S","C","R","I","P","T">>) \o <<Star(WS)>>, text).end,
                                      Len(text))
                       [] OTHER -> text,
                   lastIndex |-> 0,
                   acc |-> IF fn = "splitBulletPoints" THEN <<0>> ELSE <<>>,
                   done |-> FALSE,
                   ret |-> <<>>])
  /\ nfrag' = nfrag + 1
  /\ UNCHANGED <<input, pc>>

\* a call in progress takes its next step: exec on its RegExp object from
\* that object's lastIndex
ExecStep ==
  /\ \E c \in 1..Len(out) :
       /\ ~out[c].done
       /\ out' = [out EXCEPT
                    ![c] = [stepOf(out[c],
                                   Exec(IF out[c].fn = "splitBulletPoints"
                                          THEN headingPattern ELSE speakerPattern,
                                        out[c].subject,
                                        out[regexOf(out, c)].lastIndex))
                              EXCEPT !.lastIndex = out[c].lastIndex],
                    ![regexOf(out, c)].lastIndex =
                       stepOf(out[c],
                              Exec(IF out[c].fn = "splitBulletPoints"
                                     THEN headingPattern ELSE speakerPattern,
                                   out[c].subject,
                                   out[regexOf(out, c)].lastIndex)).lastIndex]
  /\ UNCHANGED <<input, nfrag, pc>>

SpecCalls == Init /\ [][Call \/ ExecStep]_vars

(***************************************************************************)
(* Claim about state kept between calls (under SpecCalls)                  *)
(***************************************************************************)
\* what the function of the call returns for its argument when it is the
\* only call ever made
AloneResult(call) ==
  CASE call.fn = "splitBulletPoints" -> splitBulletPoints(call.text)
    [] call.fn = "extractTranscriptTurns" -> extractTranscriptTurns(call.text)
    [] call.fn = "parseFilenameMetadata" -> parseFilenameMetadata(call.text)
    [] OTHER -> parseTranscriptFilename(call.text)

\* C23: the parsers keep no state between calls: the result of a call on a
\* given input is the same whatever calls were made before it or are
\* interleaved with it (it is the result of the call made alone, so two runs
\* that differ only in the other documents parsed give equal results).
C23_NoStateBetweenCalls ==
  \A c \in 1..Len(out) : out[c].done => out[c].ret = AloneResult(out[c])

\* two calls of splitBulletPoints on different texts were in progress at the
\* same time, each after its first match, and both have returned
C23_Witness ==
  /\ Len(out) = 2
  /\ out[1].fn = "splitBulletPoints"
  /\ out[2].fn = "splitBulletPoints"
  /\ out[1].text # out[2].text
  /\ out[1].done /\ out[2].done
  /\ Len(out[1].ret) = 2
  /\ Len(out[2].ret) = 1

(***************************************************************************)
(* The data store, POST /api/upload and the two batch scripts.             *)
(* out.index is the interviews array of metadata/index.json (empty while   *)
(* the file does not exist), out.EMPTY_INDEX that of the module-level      *)
(* object readMetadataIndex returns when there is no file, out.transcripts *)
(* and out.reports the source file of each stored JSON by interview id,    *)
(* out.requests the upload requests, out.script the batch script running.  *)
(* nfrag counts the operations started and serves as the clock; pc names   *)
(* the last operation that finished, input the directory it worked on.     *)
(***************************************************************************)
\* uploads, import runs and ingestion runs started
MaxOps == 3
\* upload requests among them
MaxUploads == 2

\* `t-${String(maxId + 1).padStart(3, "0")}` with maxId the largest number
\* of an id of the index
getNextInterviewId(interviews) ==
  LET maxId == Greatest({0} \cup
                 {parseInt(ReplaceMatch(interviews[k].id,
                                        Match(Lit(<<"t","-">>), interviews[k].id), <<>>)).n :
                    k \in 1..Len(interviews)})
  IN <<"t","-">> \o (IF maxId + 1 < 10 THEN <<"0","0">> ELSE <<"0">>) \o DecimalString(maxId + 1)

\* an empty store, no request, no script running
StoreInit ==
  /\ input = <<>>
  /\ nfrag = 0
  /\ pc = "build"
  /\ out = [index |-> <<>>, EMPTY_INDEX |-> <<>>,
            transcripts |-> <<>>, reports |-> <<>>,
            requests |-> <<>>,
            script |-> [at |-> "idle", files |-> <<>>, i |-> 0,
                        metadataIndex |-> <<>>, after |-> "build"]]

\* POST, lines 50-123: the form is valid; readMetadataIndex and the id.
\* Without an index file the index is the shared EMPTY_INDEX object.
UploadRead ==
  /\ nfrag < MaxOps
  /\ Len(out.requests) < MaxUploads
  /\ out.script.at = "idle"
  /\ \E transcriptFile \in {<<>>, <<"T","1","_","N","P","S","9","_","N","A","_","E","S","_","X","_","S","E","P","2","5",".","p","d","f">>},
        reportFile \in {<<>>, <<"R","1","_","N","P","S","6","_","N","A","_","E","S","_","X","_","S","E","P","2","5",".","p","d","f">>, <<"R","1","0","_","N","P","S","6","_","N","A","_","E","S","_","X","_","S","E","P","2","5",".","p","d","f">>} :
       /\ transcriptFile # <<>> \/ reportFile # <<>>
       /\ out' = [out EXCEPT !.requests =
                    Append(@, [transcriptFile |-> transcriptFile,
                               reportFile |-> reportFile,
                               at |-> "read",
                               shared |-> out.index = <<>>,
                               index |-> IF out.index = <<>> THEN out.EMPTY_INDEX
                                                             ELSE out.index,
                               id |-> getNextInterviewId(
                                        IF out.index = <<>> THEN out.EMPTY_INDEX
                                                            ELSE out.index),
                               now |-> nfrag + 1])]
  /\ nfrag' = nfrag + 1
  /\ UNCHANGED <<input, pc>>

\* POST, lines 125-262: writeTranscript(id, ...) and writeReport(id, ...)
UploadWrite ==
  /\ \E r \in 1..Len(out.requests) :
       /\ out.requests[r].at = "read"
       /\ out' = [out EXCEPT
                    !.requests[r].at = "written",
                    !.transcripts =
                       IF out.requests[r].transcriptFile # <<>>
                         THEN (out.requests[r].id :> out.requests[r].transcriptFile) @@ @
                         ELSE @,
                    !.reports =
                       IF out.requests[r].reportFile # <<>>
                         THEN (out.requests[r].id :> out.requests[r].reportFile) @@ @
                         ELSE @]
  /\ UNCHANGED <<input, nfrag, pc>>

\* the metadata entry of POST, lines 264-306 (the fields the store and the
\* scripts look at)
uploadMetadata(req) ==
  [id |-> req.id,
   hasTranscript |-> req.transcriptFile # <<>>,
   hasReport |-> req.reportFile # <<>>,
   transcriptFile |-> IF req.transcriptFile # <<>>
                        THEN <<"t","r","a","n","s","c","r","i","p","t","s","/">> \o req.id \o <<".","j","s","o","n">> ELSE <<>>,
   originalPdfFile |-> IF req.reportFile # <<>>
                         THEN <<"o","r","i","g","i","n","a","l","s","/">> \o req.reportFile ELSE <<>>,
   transcriptCode |->
     IF Match(<<Bos>> \o Lit(<<"T">>) \o <<Plus(Digit)>> \o Lit(<<"_","N","P","S">>) \o <<Plus(Digit)>> \o Lit(<<"_">>),
              req.transcriptFile).ok
       THEN parseTranscriptFilename(req.transcriptFile).transcriptCode ELSE <<>>,
   reportCode |->
     IF Match(<<Bos>> \o Lit(<<"R">>) \o <<Plus(Digit)>> \o Lit(<<"_","N","P","S">>) \o <<Plus(Digit)>> \o Lit(<<"_">>),
              req.reportFile).ok
       THEN Group(Match(<<Bos, Open(1)>> \o Lit(<<"R">>) \o <<Plus(Digit), Close(1)>> \o Lit(<<"_">>),
                        req.reportFile), req.reportFile, 1)
       ELSE <<>>,
   originalTranscriptFile |-> IF req.transcriptFile # <<>>
                                THEN <<"o","r","i","g","i","n","a","l","s","/">> \o req.transcriptFile ELSE <<>>,
   originalReportFile |-> IF req.reportFile # <<>>
                            THEN <<"o","r","i","g","i","n","a","l","s","/">> \o req.reportFile ELSE <<>>,
   dataStatus |-> IF req.transcriptFile # <<>> /\ req.reportFile # <<>> THEN <<"c","o","m","p","l","e","t","e">>
                  ELSE IF req.transcriptFile # <<>> THEN <<"t","r","a","n","s","c","r","i","p","t","_","o","n","l","y">>
                  ELSE <<"r","e","p","o","r","t","_","o","n","l","y">>,
   updatedAt |-> req.now]

\* POST, lines 308-314: index.interviews.push(metadata), writeMetadataIndex
\* and the answer 201
UploadCommit ==
  /\ \E r \in 1..Len(out.requests) :
       /\ out.requests[r].at = "written"
       /\ out' = [out EXCEPT
                    !.requests[r].at = "answered",
                    !.EMPTY_INDEX =
                       IF out.requests[r].shared
                         THEN Append(@, uploadMetadata(out.requests[r])) ELSE @,
                    !.index =
                       Append(IF out.requests[r].shared THEN out.EMPTY_INDEX
                                                       ELSE out.requests[r].index,
                              uploadMetadata(out.requests[r]))]
  /\ pc' = "upload"
  /\ UNCHANGED <<input, nfrag>>

\* import-pdfs script, one report PDF in its source directory: the report
\* JSON and the new index entry (run while no request is in flight)
ImportReports ==
  /\ nfrag < MaxOps
  /\ out.script.at = "idle"
  /\ \A r \in 1..Len(out.requests) : out.requests[r].at = "answered"
  /\ \E filename \in {<<"R","1","_","N","P","S","6","_","N","A","_","E","S","_","X","_","S","E","P","2","5",".","p","d","f">>, <<"R","1","0","_","N","P","S","6","_","N","A","_","E","S","_","X","_","S","E","P","2","5",".","p","d","f">>} :
       /\ out' = [out EXCEPT
                    !.reports = (getNextInterviewId(out.index) :> filename) @@ @,
                    !.index =
                       Append(@, [id |-> getNextInterviewId(out.index),
                                  hasTranscript |-> FALSE,
                                  hasReport |-> TRUE,
                                  transcriptFile |-> <<>>,
                                  originalPdfFile |-> <<"o","r","i","g","i","n","a","l","s","/">> \o filename,
                                  transcriptCode |-> <<>>,
                                  reportCode |-> <<>>,
                                  originalTranscriptFile |-> <<>>,
                                  originalReportFile |-> <<>>,
                                  dataStatus |-> <<>>,
                                  updatedAt |-> nfrag + 1])]
       /\ input' = <<filename>>
  /\ nfrag' = nfrag + 1
  /\ pc' = "import"

\* findInterviewByReportCode with a plausible slip: the pattern has no "_"
\* after the code
findInterviewByReportCode_prefix(interviews, reportCode) ==
  LET found == {k \in 1..Len(interviews) :
                  /\ interviews[k].originalPdfFile # <<>>
                  /\ Match(Lit(<<"o","r","i","g","i","n","a","l","s","/">> \o reportCode),
                           interviews[k].originalPdfFile).ok}
  IN IF found = {} THEN 0 ELSE Least(found)

\* interviews.find(...) with new RegExp(`originals/${reportCode}_`): the
\* place of the first interview whose originalPdfFile matches, 0 for undefined
findInterviewByReportCode(interviews, reportCode) ==
  LET found == {k \in 1..Len(interviews) :
                  /\ interviews[k].originalPdfFile # <<>>
                  /\ Match(Lit(<<"o","r","i","g","i","n","a","l","s","/">> \o reportCode \o <<"_">>),
                           interviews[k].originalPdfFile).ok}
  IN IF found = {} THEN 0 ELSE Least(found)

\* ingestTranscripts, lines 65-106: the index is read (the script exits when
\* there is none) and the transcript PDFs are listed, sorted by T-number
IngestStart ==
  /\ nfrag < MaxOps
  /\ out.script.at = "idle"
  /\ \A r \in 1..Len(out.requests) : out.requests[r].at = "answered"
  /\ out.index # <<>>
  /\ \E files \in {<<<<"T","1","_","N","P","S","9","_","N","A","_","E","S","_","X","_","S","E","P","2","5",".","p","d","f">>>>,
                   <<<<"T","1","_","N","P","S","9","_","N","A","_","E","S","_","X","_","S","E","P","2","5",".","p","d","f">>, <<"T","1","0","_","N","P","S","9","_","N","A","_","E","S","_","X","_","S","E","P","2","5",".","p","d","f">>>>} :
       out' = [out EXCEPT !.script = [at |-> "loop", files |-> files, i |-> 1,
                                      metadataIndex |-> out.index, after |-> pc]]
  /\ nfrag' = nfrag + 1
  /\ UNCHANGED <<input, pc>>

\* ingestTranscripts, lines 108-225: one turn of the loop over the files,
\* k being the place of the interview found for the file (0: none)
ingestFile(store, filename, k, now) ==
  IF k = 0 THEN store
  ELSE IF /\ store.script.metadataIndex[k].hasTranscript
          /\ store.script.metadataIndex[k].transcriptFile # <<>>
    THEN store
    ELSE [store EXCEPT
            !.transcripts = (store.script.metadataIndex[k].id :> filename) @@ @,
            !.script.metadataIndex[k] =
               [@ EXCEPT
                  !.hasTranscript = TRUE,
                  !.transcriptFile = <<"t","r","a","n","s","c","r","i","p","t","s","/">> \o store.script.metadataIndex[k].id
                                     \o <<".","j","s","o","n">>,
                  !.transcriptCode = parseTranscriptFilename(filename).transcriptCode,
                  !.originalTranscriptFile = <<"o","r","i","g","i","n","a","l","s","/">> \o filename,
                  !.dataStatus = <<"c","o","m","p","l","e","t","e">>,
                  !.updatedAt = now,
                  !.reportCode =
                     IF @ = <<>>
                       THEN groupOr(Match(Lit(<<"o","r","i","g","i","n","a","l","s","/">>) \o <<Open(1)>> \o Lit(<<"R">>)
                                          \o <<Plus(Digit), Close(1)>> \o Lit(<<"_">>),
                                          store.script.metadataIndex[k].originalPdfFile),
                                    store.script.metadataIndex[k].originalPdfFile, <<>>)
                       ELSE @,
                  !.originalReportFile =
                     IF @ = <<>> THEN store.script.metadataIndex[k].originalPdfFile
                                 ELSE @]]

\* the next file of the directory is processed: its code, its number
\* (getTranscriptNumber), the report code `R${transcriptNum}`
IngestFile ==
  /\ out.script.at = "loop"
  /\ out.script.i <= Len(out.script.files)
  /\ out' = [ingestFile(out, out.script.files[out.script.i],
                        findInterviewByReportCode(
                          out.script.metadataIndex,
                          <<"R">> \o DecimalString(
                                   parseInt(groupOr(
                                     Match(<<Bos>> \o Lit(<<"T">>) \o <<Open(1), Plus(Digit), Close(1), Eos>>,
                                           parseTranscriptFilename(
                                             out.script.files[out.script.i]).transcriptCode),
                                     parseTranscriptFilename(
                                       out.script.files[out.script.i]).transcriptCode,
                                     <<"0">>)).n)),
                        nfrag)
               EXCEPT !.script.i = @ + 1]
  /\ UNCHANGED <<input, nfrag, pc>>

\* ingestTranscripts, lines 227-249: reportCode and dataStatus are filled in
\* where they are missing and the index is written
IngestFinish ==
  /\ out.script.at = "loop"
  /\ out.script.i > Len(out.script.files)
  /\ out' = [out EXCEPT
               !.script.at = "idle",
               !.index =
                  [k \in 1..Len(out.script.metadataIndex) |->
                     [out.script.metadataIndex[k] EXCEPT
                        !.reportCode =
                           IF @ = <<>> /\ out.script.metadataIndex[k].originalPdfFile # <<>>
                             THEN groupOr(Match(Lit(<<"o","r","i","g","i","n","a","l","s","/">>) \o <<Open(1)>> \o Lit(<<"R">>)
                                                \o <<Plus(Digit), Close(1)>> \o Lit(<<"_">>),
                                                out.script.metadataIndex[k].originalPdfFile),
                                          out.script.metadataIndex[k].originalPdfFile, <<>>)
                             ELSE @,
                        !.dataStatus =
                           IF @ # <<>> THEN @
                           ELSE IF /\ out.script.metadataIndex[k].hasTranscript
                                   /\ out.script.metadataIndex[k].hasReport THEN <<"c","o","m","p","l","e","t","e">>
                           ELSE IF out.script.metadataIndex[k].hasTranscript
                             THEN <<"t","r","a","n","s","c","r","i","p","t","_","o","n","l","y">>
                           ELSE IF out.script.metadataIndex[k].hasReport
                             THEN <<"r","e","p","o","r","t","_","o","n","l","y">> ELSE @]]]
  /\ input' = out.script.files
  /\ pc' = "ingest"
  /\ UNCHANGED nfrag

SpecStore ==
  StoreInit /\ [][\/ UploadRead \/ UploadWrite \/ UploadCommit
                  \/ ImportReports
                  \/ IngestStart \/ IngestFile \/ IngestFinish]_vars


\* the number n of a code Tn or Rn
codeNumber(code) == parseInt(Tail(code)).n

\* C24: an entry of the metadata index that carries both a transcriptCode
\* Tn and a reportCode Rm has n = m, after any sequence of uploads, report
\* imports and ingestion runs
C24_CodesAgree ==
  \A k \in 1..Len(out.index) :
     (out.index[k].transcriptCode # <<>> /\ out.index[k].reportCode # <<>>)
       => codeNumber(out.index[k].transcriptCode) = codeNumber(out.index[k].reportCode)

\* every request was answered 201 and nothing but uploads ran
OnlyUploadsAnswered ==
  /\ out.requests # <<>>
  /\ nfrag = Len(out.requests)
  /\ \A r \in 1..Len(out.requests) : out.requests[r].at = "answered"

\* C30: after concurrent uploads that all answered 201 the index has one
\* entry per request, no two entries share an id, and the transcript and the
\* report stored under a request's id are the ones that request sent
C30_UploadsKeepApart ==
  OnlyUploadsAnswered =>
    /\ Len(out.index) = Len(out.requests)
    /\ \A j, k \in 1..Len(out.index) : j # k => out.index[j].id # out.index[k].id
    /\ \A r \in 1..Len(out.requests) :
         /\ out.requests[r].transcriptFile # <<>>
              => out.transcripts[out.requests[r].id] = out.requests[r].transcriptFile
         /\ out.requests[r].reportFile # <<>>
              => out.reports[out.requests[r].id] = out.requests[r].reportFile


\* the file the ingestion loop is at and the code Tn its name carries
fileAtHand == out.script.files[out.script.i]
codeAtHand == parseTranscriptFilename(fileAtHand).transcriptCode

\* the interview's original report file is named Rn_... for the Tn at hand
HasReportOfCodeAtHand(interview) ==
  LET name == <<"o","r","i","g","i","n","a","l","s","/","R">> \o Tail(codeAtHand) \o <<"_">>
  IN /\ Len(interview.originalPdfFile) >= Len(name)
     /\ SubSeq(interview.originalPdfFile, 1, Len(name)) = name

\* a step of the ingestion loop: one transcript file was dealt with
LoopTurn ==
  /\ out.script.at = "loop"
  /\ out'.script.at = "loop"
  /\ out'.script.i = out.script.i + 1

\* the first interview with the report of the code at hand, 0 without one
InterviewAtHand ==
  LET found == {k \in 1..Len(out.script.metadataIndex) :
                  HasReportOfCodeAtHand(out.script.metadataIndex[k])}
  IN IF found = {} THEN 0 ELSE Least(found)

\* the loop turn attached the file at hand to interview k
Attached(k) ==
  /\ HasReportOfCodeAtHand(out.script.metadataIndex[k])
  /\ ~out.script.metadataIndex[k].hasTranscript
  /\ out.script.metadataIndex[k].transcriptFile = <<>>
  /\ out'.script.metadataIndex[k].hasTranscript
  /\ out'.script.metadataIndex[k].transcriptCode = codeAtHand
  /\ out'.transcripts[out.script.metadataIndex[k].id] = fileAtHand

\* the loop turn left every entry and every stored transcript as it was
Skipped ==
  /\ out'.script.metadataIndex = out.script.metadataIndex
  /\ out'.transcripts = out.transcripts

\* a run over the directory of the run that finished just before ends
SecondRunEnds ==
  /\ out.script.at = "loop"
  /\ out'.script.at = "idle"
  /\ out.script.after = "ingest"
  /\ out.script.files = input

SecondRunDone ==
  /\ pc = "ingest"
  /\ out.script.after = "ingest"
  /\ out.script.files = input


(***************************************************************************)
(* The data root of the store.  out.lockedDataRoot is the module variable  *)
(* ("" for null), out.env the value of KFCX_DATA_ROOT ("" when unset,      *)
(* otherwise the root it resolves to), out.full the roots whose            *)
(* metadata/index.json holds interviews.  out.first remembers the root of  *)
(* the first lock and out.path the root used by the last operation that    *)
(* began under a lock.  nfrag counts the steps.                            *)
(***************************************************************************)
\* store operations and changes of the environment
MaxRootOps == 4

\* getDataRoot: the locked root, else the environment's, else cwd/data/store
getDataRoot(store) ==
  IF store.lockedDataRoot # "" THEN store.lockedDataRoot
  ELSE IF store.env # "" THEN store.env
  ELSE "data/store"

\* tryAllDataRoots over getCandidateDataRoots(): the first candidate whose
\* index has interviews ("" for null); lockedDataRoot is not looked at
tryAllDataRoots(store) ==
  LET base == <<"data/store", "../data/store", "../kfcx/data/store", "kfcx/data/store">>
      candidates == IF store.env # ""
                      THEN <<store.env>> \o SelectSeq(base, LAMBDA root : root # store.env)
                      ELSE base
      found == {k \in 1..Len(candidates) : candidates[k] \in store.full}
  IN IF found = {} THEN "" ELSE candidates[Least(found)]

\* a fresh process: nothing locked; the environment and the disk are any
RootsInit ==
  /\ input = <<>>
  /\ nfrag = 0
  /\ pc = "build"
  /\ \E env \in {"", "/srv/kfcx", "../data/store"},
        full \in SUBSET {"data/store", "../data/store", "/srv/kfcx"} :
       out = [lockedDataRoot |-> "", env |-> env, full |-> full,
              first |-> "", path |-> ""]

\* the store's state after an operation that used root and left locked as
\* the locked root
afterOperation(store, root, locked) ==
  [store EXCEPT !.lockedDataRoot = locked,
                !.first = IF @ = "" THEN locked ELSE @,
                !.path = IF store.lockedDataRoot # "" THEN root ELSE @]

\* readMetadataIndex: the candidates first, then the file under getDataRoot()
ReadMetadataIndex ==
  /\ nfrag < MaxRootOps
  /\ out' = IF tryAllDataRoots(out) # ""
              THEN afterOperation(out, tryAllDataRoots(out), tryAllDataRoots(out))
              ELSE afterOperation(out, getDataRoot(out),
                                  IF getDataRoot(out) \in out.full THEN getDataRoot(out)
                                                                   ELSE out.lockedDataRoot)
  /\ nfrag' = nfrag + 1
  /\ pc' = "read"
  /\ UNCHANGED input

\* an operation through resolvePath: readTranscript, readReport,
\* writeTranscript, writeReport, ..., or writeMetadataIndex with or without
\* interviews in the index written
ResolvePath ==
  /\ nfrag < MaxRootOps
  /\ \E operation \in {"read", "write", "writeMetadataIndex", "writeEmptyIndex"} :
       /\ out' = [afterOperation(out, getDataRoot(out), out.lockedDataRoot)
                    EXCEPT !.full = CASE operation = "writeMetadataIndex" -> @ \cup {getDataRoot(out)}
                                      [] operation = "writeEmptyIndex" -> @ \ {getDataRoot(out)}
                                      [] OTHER -> @]
       /\ pc' = operation
  /\ nfrag' = nfrag + 1
  /\ UNCHANGED input

\* outside the store: process.env.KFCX_DATA_ROOT is set anew, or the index
\* of a candidate root gains or loses its interviews
EnvironmentChanges ==
  /\ nfrag < MaxRootOps
  /\ \E env \in {"", "/srv/kfcx", "../data/store"},
        full \in SUBSET {"data/store", "../data/store", "/srv/kfcx"} :
       /\ (env # out.env) # (full # out.full)
       /\ env = out.env => \E root \in {"data/store", "../data/store", "/srv/kfcx"} :
                              full \in {out.full \cup {root}, out.full \ {root}}
       /\ out' = [out EXCEPT !.env = env, !.full = full]
  /\ nfrag' = nfrag + 1
  /\ pc' = "environment"
  /\ UNCHANGED input

SpecRoots ==
  RootsInit /\ [][ReadMetadataIndex \/ ResolvePath \/ EnvironmentChanges]_vars

\* C26: once a root is locked the locked root stays the one locked first,
\* and every operation that begins under the lock uses that root
C26_OneRootOnceLocked ==
  out.first # "" =>
    /\ out.lockedDataRoot = out.first
    /\ out.path # "" => out.path = out.first

=============================================================================
